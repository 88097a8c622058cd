------------------------- MODULE TransportDecProofs -------------------------
(***************************************************************************)
(* For every stream, buffer and chunk, wherever damaged blocks end and     *)
(* wherever the headers say that blocks do: the reader of ADTS frames is   *)
(* at a byte whenever it looks for a sync word, goes back only at the end  *)
(* of a frame whose blocks are not where its length says, and reports a    *)
(* loss of sync once; it asks for more bits only when the next frame is    *)
(* not complete, and which access units it reads does not depend on the    *)
(* chunks.                                                                 *)
(***************************************************************************)
EXTENDS TransportDec, WellFoundedInduction, TLAPS

\* What the assumption says of a header.
GoodHeader(h) ==
  /\ h \in Header /\ NumBlocks(h) \in 1..4 /\ h.pce % Byte = 0
  /\ h.ends[NumBlocks(h)] < 8192
  /\ FrameBits(h) + HeaderBits(h) + 2 * Byte < BufBits
  /\ \A i \in 1..NumBlocks(h) - 1 : HeaderBits(h) <= Byte * h.ends[i]

LEMMA StreamHeadersGood ==
  ASSUME NEW s \in Streams, NEW b \in DOMAIN s.header
  PROVE  GoodHeader(s.header[b])
BY TransportAssumption DEF GoodHeader

\* Whole bytes add up to whole bytes.
LEMMA WholeBytes ==
  ASSUME NEW a \in Int, a % 8 = 0, NEW b \in Int, b % 8 = 0
  PROVE  (a + b) % 8 = 0 /\ (a - b) % 8 = 0
OBVIOUS

\* Lengths in a header: whole bytes.
LEMMA HeaderLengths ==
  ASSUME NEW h, GoodHeader(h)
  PROVE  /\ NumBlocks(h) \in 1..4 /\ h.pce \in Nat /\ h.protected \in BOOLEAN
         /\ \A i \in 1..NumBlocks(h) : h.ends[i] \in Nat
         /\ h.ends[NumBlocks(h)] < 8192
         /\ FrameBits(h) \in Nat /\ FrameBits(h) = 8 * h.ends[NumBlocks(h)]
         /\ HeaderBits(h) \in Nat /\ HeaderBits(h) >= 56 /\ HeaderBits(h) % 8 = 0
         /\ Payload(h) \in Nat /\ Payload(h) % 8 = 0 /\ Payload(h) = HeaderBits(h) + h.pce
         /\ FrameBits(h) + HeaderBits(h) + 16 < BufBits
<1>1. /\ NumBlocks(h) \in 1..4 /\ h.pce \in Nat /\ h.protected \in BOOLEAN /\ h.ends \in Seq(Nat)
      /\ h.pce % 8 = 0 /\ h.ends[NumBlocks(h)] < 8192
      /\ FrameBits(h) + HeaderBits(h) + 16 < BufBits
  BY DEF GoodHeader, Header, Byte
<1>2. \A i \in 1..NumBlocks(h) : h.ends[i] \in Nat
  BY <1>1 DEF NumBlocks
<1>4. FrameBits(h) = 8 * h.ends[NumBlocks(h)] /\ FrameBits(h) \in Nat
  <2>1. h.ends[NumBlocks(h)] \in Nat
    BY <1>1, <1>2
  <2> QED BY <2>1 DEF FrameBits, Byte
<1>5. HeaderBits(h) \in Nat /\ HeaderBits(h) >= 56 /\ HeaderBits(h) % 8 = 0
  BY <1>1 DEF HeaderBits, ADTS_HEADERLENGTH, CrcLength
<1>6. Payload(h) \in Nat /\ Payload(h) % 8 = 0 /\ Payload(h) = HeaderBits(h) + h.pce
  <2>1. Payload(h) = HeaderBits(h) + h.pce
    BY DEF Payload
  <2>2. (HeaderBits(h) + h.pce) % 8 = 0
    <3>1. HeaderBits(h) \in Int /\ h.pce \in Int /\ HeaderBits(h) % 8 = 0 /\ h.pce % 8 = 0
      BY <1>1, <1>5
    <3> QED BY <3>1, WholeBytes
  <2>3. HeaderBits(h) + h.pce \in Nat
    BY <1>1, <1>5
  <2> QED BY <2>1, <2>2, <2>3
<1> QED BY <1>1, <1>2, <1>4, <1>5, <1>6

\* Blocks that follow each other end in the frame.
LEMMA BlocksInFrame ==
  ASSUME NEW h, GoodHeader(h), WellPlaced(h)
  PROVE  /\ Payload(h) <= 8 * h.ends[1]
         /\ \A i \in 2..NumBlocks(h) : h.ends[i - 1] <= h.ends[i]
         /\ \A i \in 1..NumBlocks(h) : h.ends[i] <= h.ends[NumBlocks(h)]
<1>1. /\ NumBlocks(h) \in 1..4
      /\ \A i \in 2..NumBlocks(h) : h.ends[i - 1] <= h.ends[i]
      /\ Payload(h) <= 8 * h.ends[1]
  BY HeaderLengths DEF WellPlaced, Byte
<1>2. \A i \in 1..NumBlocks(h) : h.ends[i] \in Nat
  BY HeaderLengths
<1>3. \A i \in 1..NumBlocks(h) : h.ends[i] <= h.ends[NumBlocks(h)]
  <2>1. CASE NumBlocks(h) = 1
    BY <1>1, <1>2, <2>1
  <2>2. CASE NumBlocks(h) = 2
    <3>1. h.ends[1] \in Nat /\ h.ends[2] \in Nat /\ h.ends[2 - 1] <= h.ends[2]
      BY <1>1, <1>2, <2>2
    <3> QED BY <2>2, <3>1
  <2>3. CASE NumBlocks(h) = 3
    <3>1. h.ends[1] \in Nat /\ h.ends[2] \in Nat /\ h.ends[3] \in Nat
      BY <1>2, <2>3
    <3>2. h.ends[2 - 1] <= h.ends[2] /\ h.ends[3 - 1] <= h.ends[3]
      BY <1>1, <2>3
    <3> QED BY <2>3, <3>1, <3>2
  <2>4. CASE NumBlocks(h) = 4
    <3>1. h.ends[1] \in Nat /\ h.ends[2] \in Nat /\ h.ends[3] \in Nat /\ h.ends[4] \in Nat
      BY <1>2, <2>4
    <3>2. h.ends[2 - 1] <= h.ends[2] /\ h.ends[3 - 1] <= h.ends[3] /\ h.ends[4 - 1] <= h.ends[4]
      BY <1>1, <2>4
    <3> QED BY <2>4, <3>1, <3>2
  <2> QED BY <1>1, <2>1, <2>2, <2>3, <2>4
<1> QED BY <1>1, <1>3

-----------------------------------------------------------------------------
\* The buffer is filled with bytes, and the reader is at one.
Positions ==
  /\ fed \in Nat /\ fed <= End /\ fed % 8 = 0
  /\ pos \in Nat /\ pos % 8 = 0

\* Where the frame begins that is read from, as globalFramePos tells.  Inside of it
\* that is true; behind it, what is filled is not accounted for.
FrameStart == fed - globalFramePos - ADTS_SYNCLENGTH
FrameFound ==
  /\ numberOfRawDataBlocks > 0 => FrameStart = frame
  /\ syncOk => FrameStart >= frame

\* Inside a protected frame, if its blocks are where its length says, the reader is
\* where the last block ended; and in sync it is then not behind the end of the frame.
InFrame ==
  numberOfRawDataBlocks > 0 =>
    /\ syncOk /\ GoodHeader(bs) /\ numberOfRawDataBlocks < NumBlocks(bs)
    /\ bs.protected /\ WellPlaced(bs) =>
         pos = FrameStart + 8 * bs.ends[NumBlocks(bs) - numberOfRawDataBlocks]

BehindFrame ==
  syncOk /\ bs.protected =>
    /\ GoodHeader(bs) /\ FrameStart % 8 = 0 /\ FrameStart >= 0
    /\ WellPlaced(bs) => pos <= FrameStart + FrameBits(bs)

IInv == TypeOK /\ Positions /\ FrameFound /\ InFrame /\ BehindFrame

LEMMA EndTyped ==
  ASSUME stream \in Streams
  PROVE  End \in Nat /\ End % 8 = 0
BY TransportAssumption DEF End, Byte

-----------------------------------------------------------------------------
\* The frame found at a sync word is accepted, waited for, or rejected.
LEMMA ExaminedCases ==
  ASSUME stream \in Streams, NEW q \in Nat, SyncAt(q), NEW end \in Int,
         NEW o, o = Examined(q, end)
  PROVE  /\ GoodHeader(HeaderAt(q)) /\ q % 8 = 0
         /\ ReadHeader(q, end) \in {"Ok", "NotEnough", "SyncError"}
         /\ \/ /\ o.result = "Ok" /\ o.pos = q + Payload(HeaderAt(q)) /\ o.header = HeaderAt(q)
               /\ end - q >= FrameBits(HeaderAt(q))
               /\ Payload(HeaderAt(q)) < FrameBits(HeaderAt(q))
            \/ o.result = "NotEnough" /\ o.pos = q /\ end - q < BufBits - 7
            \/ o.result = "SyncError" /\ o.pos = q + 8 /\ ReadHeader(q, end) = "SyncError"
<1>1. GoodHeader(HeaderAt(q)) /\ q % 8 = 0
  BY StreamHeadersGood DEF SyncAt, HeaderAt, Byte
<1>2. ReadHeader(q, end) \in {"Ok", "NotEnough", "SyncError"}
  BY DEF ReadHeader
<1>3. CASE ReadHeader(q, end) = "Ok"
  <2>1. ~(end - q < FrameBits(HeaderAt(q))) /\ Payload(HeaderAt(q)) < FrameBits(HeaderAt(q))
    BY <1>3 DEF ReadHeader, Accepted
  <2>2. end - q >= FrameBits(HeaderAt(q))
    BY <1>1, <2>1, HeaderLengths
  <2> QED BY <1>1, <1>3, <2>1, <2>2 DEF Examined, Outcome
<1>4. CASE ReadHeader(q, end) = "NotEnough"
  <2>1. \/ end - q < HeaderBits(HeaderAt(q)) \/ end - q < FrameBits(HeaderAt(q))
        \/ end - q < HeaderBits(HeaderAt(q)) + FrameBits(HeaderAt(q))
    BY <1>4 DEF ReadHeader
  <2>2. end - q < BufBits - 7
    BY <1>1, <2>1, HeaderLengths, TransportAssumption
  <2> QED BY <1>1, <1>4, <2>2 DEF Examined, NoUnit, Outcome
<1>5. CASE ReadHeader(q, end) = "SyncError"
  BY <1>1, <1>5 DEF Examined, NoUnit, Outcome, Byte
<1> QED BY <1>1, <1>2, <1>3, <1>4, <1>5

LEMMA LeastPosition ==
  ASSUME NEW S, S \subseteq Nat, S # {}
  PROVE  \E q \in S : \A r \in S : q <= r
<1> DEFINE R == OpToRel(<, Nat)
<1>1. IsWellFoundedOn(R, Nat)
  BY NatLessThanWellFounded
<1>2. R = {ss \in Nat \X Nat : ss[1] < ss[2]}
  BY DEF OpToRel
<1> HIDE DEF R
<1>3. PICK q \in S : \A r \in S : <<r, q>> \notin R
  BY <1>1, WFMin
<1>4. \A r \in S : ~(r < q)
  BY <1>2, <1>3
<1> QED BY <1>3, <1>4

\* A search that finds something finds a first one.
LEMMA SearchFinds ==
  ASSUME stream \in Streams, NEW p \in Nat, NEW end \in Int
  PROVE  \/ Search(p, end) = NoUnit("NotEnough", end - 8)
         \/ \E q \in Nat : /\ SyncAt(q) /\ p <= q /\ ReadHeader(q, end) # "SyncError"
                           /\ Search(p, end) = Examined(q, end)
<1> DEFINE found == {q \in {Byte * b : b \in DOMAIN stream.header} :
                       p <= q /\ q <= end - 2 * Byte /\ ReadHeader(q, end) # "SyncError"}
<1>1. CASE found = {}
  BY <1>1 DEF Search, Byte
<1>2. CASE found # {}
  <2>1. found \in SUBSET Nat
    BY TransportAssumption DEF Byte
  <2>2. \E q \in found : \A r \in found : q <= r
    <3> HIDE DEF found
    <3> QED BY <1>2, <2>1, LeastPosition
  <2>3. PICK q \in found : q = CHOOSE x \in found : \A r \in found : x <= r
    BY <2>2
  <2>4. Search(p, end) = Examined(q, end)
    BY <1>2, <2>3 DEF Search
  <2>5. PICK b \in DOMAIN stream.header : q = 8 * b
    BY DEF Byte
  <2>6. b \in Nat /\ q \in Nat /\ q % 8 = 0 /\ q \div 8 = b
    BY <2>5, TransportAssumption
  <2>7. SyncAt(q)
    BY <2>5, <2>6 DEF SyncAt, Byte
  <2> QED BY <2>4, <2>6, <2>7
<1> QED BY <1>1, <1>2

\* What a call of the decoder finds: the next block of a frame, a frame, nothing
\* yet, or, in sync only, something else than a frame.
LEMMA SynchronizationCases ==
  ASSUME IInv, NEW o, o = Synchronization(pos, fed, syncOk, BlocksLeft)
  PROVE  \/ /\ o.result = "Ok" /\ o.pos = pos /\ o.header = bs
            /\ BlocksLeft > 0
         \/ /\ o.result = "Ok" /\ BlocksLeft = 0
            /\ \E q \in Nat : /\ q >= pos /\ q % 8 = 0 /\ GoodHeader(HeaderAt(q))
                              /\ o.header = HeaderAt(q) /\ o.pos = q + Payload(HeaderAt(q))
                              /\ fed - q >= FrameBits(HeaderAt(q))
                              /\ Payload(HeaderAt(q)) < FrameBits(HeaderAt(q))
         \/ /\ o.result = "NotEnough" /\ o.pos \in Nat /\ o.pos >= pos /\ o.pos % 8 = 0
            /\ (syncOk => o.pos = pos) /\ fed - o.pos < BufBits - 7
         \/ /\ o.result = "SyncError" /\ syncOk /\ BlocksLeft = 0 /\ numberOfRawDataBlocks = 0
            /\ o.pos = pos + 8
<1>1. /\ stream \in Streams /\ pos \in Nat /\ fed \in Nat /\ syncOk \in BOOLEAN
      /\ pos % 8 = 0 /\ fed % 8 = 0
      /\ numberOfRawDataBlocks \in 0..3 /\ BufBits \in Nat /\ BufBits > 32
  BY TransportAssumption DEF IInv, TypeOK, Positions, Byte
<1>2. /\ BlocksLeft \in 0..3 /\ (BlocksLeft > 0 => syncOk /\ GoodHeader(bs))
      /\ (fed - pos > 0 => BlocksLeft = numberOfRawDataBlocks)
  BY <1>1 DEF BlocksLeft, ValidBits, IInv, InFrame
<1>3. CASE BlocksLeft > 0 /\ fed > pos
  <2>1. o = NextBlock(pos, fed)
    BY <1>1, <1>2, <1>3 DEF Synchronization
  <2>2. FrameBits(bs) < BufBits - 7 /\ FrameBits(bs) \in Nat
    BY <1>1, <1>2, <1>3, HeaderLengths
  <2>3. CASE fed - pos < FrameBits(bs) - ADTS_SYNCLENGTH
    <3>1. o.result = "NotEnough" /\ o.pos = pos
      BY <2>1, <2>3 DEF NextBlock, NoUnit, Outcome
    <3>2. fed - pos < BufBits - 7
      BY <1>1, <2>2, <2>3 DEF ADTS_SYNCLENGTH
    <3> QED BY <1>1, <3>1, <3>2
  <2>4. CASE ~(fed - pos < FrameBits(bs) - ADTS_SYNCLENGTH)
    BY <1>3, <2>1, <2>4 DEF NextBlock, Outcome
  <2> QED BY <2>3, <2>4
<1>4. CASE BlocksLeft > 0 /\ fed <= pos
  <2>1. o.result = "NotEnough" /\ o.pos = pos
    BY <1>1, <1>2, <1>4 DEF Synchronization, NoUnit, Outcome
  <2> QED BY <1>1, <1>4, <2>1
<1>5. CASE BlocksLeft = 0 /\ fed - pos - 12 < 8
  <2>1. o.result = "NotEnough" /\ o.pos = pos
    BY <1>1, <1>2, <1>5 DEF Synchronization, NoUnit, Outcome, ADTS_SYNCLENGTH, Byte
  <2> QED BY <1>1, <1>5, <2>1
<1>6. CASE BlocksLeft = 0 /\ fed - pos - 12 >= 8 /\ syncOk
  <2>1. o = NextFrame(pos, fed) /\ numberOfRawDataBlocks = 0
    BY <1>1, <1>2, <1>6 DEF Synchronization, ADTS_SYNCLENGTH, Byte
  <2>2. CASE SyncAt(pos)
    <3>1. o = Examined(pos, fed)
      BY <2>1, <2>2 DEF NextFrame
    <3>2. /\ GoodHeader(HeaderAt(pos))
          /\ \/ /\ o.result = "Ok" /\ o.pos = pos + Payload(HeaderAt(pos)) /\ o.header = HeaderAt(pos)
                /\ fed - pos >= FrameBits(HeaderAt(pos))
                /\ Payload(HeaderAt(pos)) < FrameBits(HeaderAt(pos))
             \/ o.result = "NotEnough" /\ o.pos = pos /\ fed - pos < BufBits - 7
             \/ o.result = "SyncError" /\ o.pos = pos + 8
      BY <1>1, <2>2, <3>1, ExaminedCases
    <3>3. pos >= pos
      BY <1>1
    <3> QED BY <1>1, <1>6, <2>1, <3>2, <3>3
  <2>3. CASE ~SyncAt(pos)
    <3>1. o.result = "SyncError" /\ o.pos = pos + 8
      BY <2>1, <2>3 DEF NextFrame, NoUnit, Outcome, Byte
    <3> QED BY <1>1, <1>6, <2>1, <3>1
  <2> QED BY <2>2, <2>3
<1>7. CASE BlocksLeft = 0 /\ fed - pos - 12 >= 8 /\ ~syncOk
  <2>1. o = Search(pos, fed)
    BY <1>1, <1>7 DEF Synchronization, ADTS_SYNCLENGTH, Byte
  <2>2. CASE o = NoUnit("NotEnough", fed - 8)
    BY <1>1, <1>7, <2>2 DEF NoUnit, Outcome
  <2>3. CASE \E q \in Nat : /\ SyncAt(q) /\ pos <= q /\ ReadHeader(q, fed) # "SyncError"
                            /\ o = Examined(q, fed)
    <3>1. PICK q \in Nat : /\ SyncAt(q) /\ pos <= q /\ ReadHeader(q, fed) # "SyncError"
                           /\ o = Examined(q, fed)
      BY <2>3
    <3>2. /\ GoodHeader(HeaderAt(q)) /\ q % 8 = 0
          /\ \/ /\ o.result = "Ok" /\ o.pos = q + Payload(HeaderAt(q)) /\ o.header = HeaderAt(q)
                /\ fed - q >= FrameBits(HeaderAt(q))
                /\ Payload(HeaderAt(q)) < FrameBits(HeaderAt(q))
             \/ o.result = "NotEnough" /\ o.pos = q /\ fed - q < BufBits - 7
      BY <1>1, <3>1, ExaminedCases
    <3>3. q >= pos
      BY <1>1, <3>1
    <3>4. CASE o.result = "Ok" /\ o.pos = q + Payload(HeaderAt(q)) /\ o.header = HeaderAt(q)
               /\ fed - q >= FrameBits(HeaderAt(q))
               /\ Payload(HeaderAt(q)) < FrameBits(HeaderAt(q))
      BY <1>7, <3>1, <3>2, <3>3, <3>4
    <3>5. CASE o.result = "NotEnough" /\ o.pos = q /\ fed - q < BufBits - 7
      BY <1>7, <3>1, <3>2, <3>3, <3>5
    <3> QED BY <3>2, <3>4, <3>5
  <2>4. \/ o = NoUnit("NotEnough", fed - 8)
        \/ \E q \in Nat : /\ SyncAt(q) /\ pos <= q /\ ReadHeader(q, fed) # "SyncError"
                          /\ o = Examined(q, fed)
    <3>1. fed \in Int
      BY <1>1
    <3> QED BY <1>1, <2>1, <3>1, SearchFinds
  <2> QED BY <2>2, <2>3, <2>4
<1> QED BY <1>1, <1>2, <1>3, <1>4, <1>5, <1>6, <1>7

\* A full buffer never has to be given up.
LEMMA ReadCases ==
  ASSUME IInv
  PROVE  \/ Read.result = "Ok" /\ Read.pos = pos /\ Read.header = bs /\ BlocksLeft > 0
         \/ /\ Read.result = "Ok" /\ BlocksLeft = 0
            /\ \E q \in Nat : /\ q >= pos /\ q % 8 = 0 /\ GoodHeader(HeaderAt(q))
                              /\ Read.header = HeaderAt(q)
                              /\ Read.pos = q + Payload(HeaderAt(q))
                              /\ fed - q >= FrameBits(HeaderAt(q))
                              /\ Payload(HeaderAt(q)) < FrameBits(HeaderAt(q))
         \/ /\ Read.result = "NotEnough" /\ Read.pos \in Nat /\ Read.pos >= pos
            /\ Read.pos % 8 = 0 /\ (syncOk => Read.pos = pos)
         \/ /\ Read.result = "SyncError" /\ syncOk /\ BlocksLeft = 0
            /\ numberOfRawDataBlocks = 0 /\ Read.pos = pos + 8
<1> DEFINE o == Synchronization(pos, fed, syncOk, BlocksLeft)
<1>1. Read = o
  <2>1. ASSUME o.result = "NotEnough", fed - o.pos >= BufBits - 7
        PROVE  FALSE
    <3>1. o.pos \in Nat /\ fed - o.pos < BufBits - 7
      <4> HIDE DEF o
      <4> QED BY <2>1, SynchronizationCases DEF o
    <3> HIDE DEF o
    <3> QED BY <2>1, <3>1, TransportAssumption DEF IInv, Positions
  <2> QED BY <2>1 DEF Read, Unblocked
<1> QED BY <1>1, SynchronizationCases

-----------------------------------------------------------------------------
\* The reader goes on to whole bytes.
LEMMA AlignedForward ==
  ASSUME NEW start \in Nat, start % 8 = 0, NEW bits \in Int
  PROVE  Aligned(start, bits) \in Nat /\ Aligned(start, bits) % 8 = 0 /\ Aligned(start, bits) >= start
<1>1. CASE bits > 0
  <2> DEFINE bytes == (bits + 8 - 1) \div 8
  <2>1. bytes \in Nat
    BY <1>1
  <2>2. Aligned(start, bits) = start + 8 * bytes
    BY <1>1 DEF Aligned, Byte
  <2> HIDE DEF bytes
  <2> QED BY <2>1, <2>2
<1>2. CASE bits <= 0
  BY <1>2 DEF Aligned
<1> QED BY <1>1, <1>2

LEMMA InitSound == Init => IInv
<1> SUFFICES ASSUME Init
             PROVE  IInv
  OBVIOUS
<1>1. stream \in Streams /\ End \in Nat
  BY EndTyped DEF Init
<1>2. NoHeader \in Header
  BY DEF NoHeader, Header
<1>3. TypeOK
  <2>1. 0 \in 0..End /\ 0 \in Nat /\ 0 \in 0..3 /\ 0 \in Int /\ << >> \in Seq(Nat)
    BY <1>1
  <2> QED BY <1>1, <1>2, <2>1 DEF Init, TypeOK
<1>4. Positions
  BY <1>1, TransportAssumption DEF Init, Positions
<1>5. FrameFound /\ InFrame /\ BehindFrame
  BY DEF Init, FrameFound, InFrame, BehindFrame
<1> QED BY <1>3, <1>4, <1>5 DEF IInv

\* What is known of the state.
LEMMA InvTypes ==
  ASSUME IInv
  PROVE  /\ stream \in Streams /\ End \in Nat /\ fed \in Nat /\ fed <= End /\ fed % 8 = 0
         /\ pos \in Nat /\ pos % 8 = 0 /\ BufBits \in Nat
         /\ syncOk \in BOOLEAN /\ numberOfRawDataBlocks \in 0..3 /\ globalFramePos \in Int
         /\ bs \in Header /\ taken \in Seq(Nat) /\ BlocksLeft \in {0, numberOfRawDataBlocks}
         /\ Byte = 8 /\ ADTS_SYNCLENGTH = 12 /\ 0 \in 0..3 /\ fed \in 0..End /\ frame \in Nat
BY EndTyped, TransportAssumption
   DEF IInv, TypeOK, Positions, BlocksLeft, Byte, ADTS_SYNCLENGTH

LEMMA FillDataKeepsInv ==
  ASSUME IInv, NEW n \in 1..MaxChunk, FillData(n)
  PROVE  IInv'
<1> DEFINE free == FreeBits
           accepted == IF 8 * n <= free THEN 8 * n ELSE 8 * (free \div 8)
<1>1. n \in Nat /\ n > 0
  BY TransportAssumption
<1>2. /\ fed' = fed + accepted /\ fed + 8 * n <= End
      /\ globalFramePos' = IF numberOfRawDataBlocks > 0 THEN globalFramePos + accepted
                           ELSE globalFramePos
      /\ result' = "None"
      /\ stream' = stream /\ pos' = pos /\ syncOk' = syncOk /\ bs' = bs /\ taken' = taken
      /\ frame' = frame /\ numberOfRawDataBlocks' = numberOfRawDataBlocks
  BY DEF FillData, Byte
<1>3. free \in Nat
  <2>1. ValidBits \in Int /\ BufBits \in Nat
    BY InvTypes DEF ValidBits
  <2> QED BY <2>1 DEF FreeBits, Overrun
<1>4. accepted \in Nat /\ accepted % 8 = 0 /\ accepted <= 8 * n
  <2>1. CASE 8 * n <= free
    BY <1>1, <1>3, <2>1
  <2>2. CASE ~(8 * n <= free)
    <3> DEFINE bytes == free \div 8
    <3> HIDE DEF free
    <3>1. bytes \in Nat /\ 8 * bytes <= free
      BY <1>3
    <3>2. accepted = 8 * bytes
      BY <2>2
    <3> HIDE DEF bytes, accepted
    <3> QED BY <1>1, <1>3, <2>2, <3>1, <3>2
  <2> QED BY <2>1, <2>2
<1> HIDE DEF accepted
<1>5. /\ fed' \in Nat /\ fed' % 8 = 0 /\ fed' <= End
      /\ globalFramePos' \in Int
  <2>1. fed' % 8 = 0
    <3>1. (fed + accepted) % 8 = 0
      <4>1. fed \in Int /\ fed % 8 = 0
        BY InvTypes
      <4>2. accepted \in Int /\ accepted % 8 = 0
        BY <1>4
      <4> QED BY <4>1, <4>2, WholeBytes
    <3> QED BY <1>2, <3>1
  <2>2. fed' <= End /\ fed' \in Nat
    <3>1. fed \in Nat /\ End \in Nat
      BY InvTypes
    <3> QED BY <1>1, <1>2, <1>4, <3>1
  <2>3. globalFramePos' \in Int
    BY <1>2, <1>4, InvTypes
  <2> QED BY <2>1, <2>2, <2>3
<1>6. End' = End
  BY <1>2 DEF End
<1>7. TypeOK'
  <2>1. fed' \in 0..End'
    BY <1>5, <1>6, InvTypes
  <2> QED BY <1>2, <1>5, <2>1, InvTypes DEF TypeOK
<1>8. Positions'
  BY <1>2, <1>5, <1>6, InvTypes DEF Positions
<1>9. /\ numberOfRawDataBlocks > 0 => FrameStart' = FrameStart
      /\ FrameStart' >= FrameStart /\ FrameStart' \in Int /\ FrameStart \in Int
      /\ FrameStart % 8 = 0 => FrameStart' % 8 = 0
  <2>1. FrameStart \in Int
    BY InvTypes DEF FrameStart
  <2>2. CASE numberOfRawDataBlocks > 0
    <3>1. FrameStart' = FrameStart
      <4>1. fed \in Int /\ globalFramePos \in Int /\ accepted \in Int
        BY <1>4, InvTypes
      <4>2. fed' = fed + accepted /\ globalFramePos' = globalFramePos + accepted
        BY <1>2, <2>2
      <4> QED BY <4>1, <4>2 DEF FrameStart, ADTS_SYNCLENGTH
    <3> QED BY <2>1, <2>2, <3>1
  <2>3. CASE ~(numberOfRawDataBlocks > 0)
    <3>1. FrameStart' = FrameStart + accepted
      <4>1. fed \in Int /\ globalFramePos \in Int /\ accepted \in Int
        BY <1>4, InvTypes
      <4>2. fed' = fed + accepted /\ globalFramePos' = globalFramePos
        BY <1>2, <2>3
      <4> QED BY <4>1, <4>2 DEF FrameStart, ADTS_SYNCLENGTH
    <3>2. FrameStart % 8 = 0 => (FrameStart + accepted) % 8 = 0
      BY <1>4, <2>1, WholeBytes
    <3> QED BY <1>4, <2>1, <2>3, <3>1, <3>2
  <2> QED BY <2>2, <2>3
<1>10. FrameFound' /\ InFrame'
  <2>1. FrameFound'
    <3>1. /\ numberOfRawDataBlocks > 0 => FrameStart' = frame
          /\ syncOk => FrameStart' >= frame
      <4>1. frame \in Nat
        BY InvTypes
      <4> QED BY <1>9, <4>1 DEF IInv, FrameFound
    <3> QED BY <1>2, <3>1 DEF FrameFound
  <2> QED BY <1>2, <1>9, <2>1 DEF IInv, InFrame
<1>11. BehindFrame'
  <2> SUFFICES ASSUME syncOk, bs.protected
               PROVE  /\ GoodHeader(bs) /\ FrameStart' % 8 = 0 /\ FrameStart' >= 0
                      /\ WellPlaced(bs) => pos <= FrameStart' + FrameBits(bs)
    BY <1>2 DEF BehindFrame
  <2>1. /\ GoodHeader(bs) /\ FrameStart % 8 = 0 /\ FrameStart >= 0
        /\ WellPlaced(bs) => pos <= FrameStart + FrameBits(bs)
    BY DEF IInv, BehindFrame
  <2>2. FrameBits(bs) \in Nat
    BY <2>1, HeaderLengths
  <2>3. pos \in Nat /\ FrameStart' \in Int /\ FrameStart \in Int
    BY <1>9, InvTypes
  <2>4. FrameStart' >= 0 /\ (WellPlaced(bs) => pos <= FrameStart' + FrameBits(bs))
    BY <1>9, <2>1, <2>2, <2>3
  <2> QED BY <1>9, <2>1, <2>4
<1> QED BY <1>7, <1>8, <1>10, <1>11 DEF IInv

LEMMA ResetKeepsInv ==
  ASSUME IInv, Reset
  PROVE  IInv'
<1>1. /\ stream' = stream /\ fed' = fed /\ bs' = bs /\ taken' = taken /\ frame' = frame
      /\ pos' = fed /\ syncOk' = FALSE /\ numberOfRawDataBlocks' = 0 /\ globalFramePos' = 0
      /\ result' = "None"
  BY DEF Reset
<1>2. End' = End
  BY <1>1 DEF End
<1>3. TypeOK'
  <2>1. fed' \in 0..End' /\ pos' \in Nat /\ 0 \in Int
    BY <1>1, <1>2, InvTypes
  <2> QED BY <1>1, <2>1, InvTypes DEF TypeOK
<1>4. Positions'
  BY <1>1, <1>2, InvTypes DEF Positions
<1>5. FrameFound' /\ InFrame' /\ BehindFrame'
  BY <1>1 DEF FrameFound, InFrame, BehindFrame
<1> QED BY <1>3, <1>4, <1>5 DEF IInv

LEMMA NoAccessUnitKeepsInv ==
  ASSUME IInv, NoAccessUnit
  PROVE  IInv' /\ pos' >= pos /\ (result' = "SyncError" => syncOk)
<1>1. /\ stream' = stream /\ fed' = fed /\ globalFramePos' = globalFramePos
      /\ bs' = bs /\ taken' = taken /\ frame' = frame /\ result' = Read.result /\ pos' = Read.pos
      /\ syncOk' = (syncOk /\ Read.result # "SyncError")
      /\ numberOfRawDataBlocks' = IF Read.result = "SyncError" THEN 0 ELSE BlocksLeft
  BY DEF NoAccessUnit
<1>2. \/ /\ result' = "NotEnough" /\ pos' \in Nat /\ pos' >= pos /\ pos' % 8 = 0
         /\ (syncOk => pos' = pos) /\ syncOk' = syncOk /\ numberOfRawDataBlocks' = BlocksLeft
      \/ /\ result' = "SyncError" /\ syncOk /\ pos' = pos + 8
         /\ syncOk' = FALSE /\ numberOfRawDataBlocks' = 0
  BY <1>1, ReadCases, InvTypes DEF NoAccessUnit
<1>3. pos' \in Nat /\ pos' >= pos /\ pos' % 8 = 0 /\ syncOk' \in BOOLEAN
  <2>1. pos \in Nat /\ pos % 8 = 0 /\ syncOk \in BOOLEAN
    BY InvTypes
  <2>2. pos + 8 \in Nat /\ pos + 8 >= pos /\ (pos + 8) % 8 = 0
    BY <2>1
  <2> QED BY <1>2, <2>1, <2>2
<1>4. End' = End /\ FrameStart' = FrameStart
  BY <1>1 DEF End, FrameStart
<1>5. TypeOK'
  BY <1>1, <1>2, <1>3, <1>4, InvTypes DEF TypeOK
<1>6. Positions'
  BY <1>1, <1>3, <1>4, InvTypes DEF Positions
<1>7. FrameFound' /\ InFrame'
  <2>1. CASE result' = "SyncError"
    BY <1>2, <2>1 DEF FrameFound, InFrame
  <2>2. CASE result' = "NotEnough"
    <3>1. FrameFound'
      <4>1. syncOk' = syncOk /\ (numberOfRawDataBlocks' > 0 => numberOfRawDataBlocks > 0)
        BY <1>2, <2>2, InvTypes
      <4> QED BY <1>1, <1>4, <4>1 DEF IInv, FrameFound
    <3> SUFFICES ASSUME numberOfRawDataBlocks' > 0
                 PROVE  /\ syncOk' /\ GoodHeader(bs') /\ numberOfRawDataBlocks' < NumBlocks(bs')
                        /\ bs'.protected /\ WellPlaced(bs') =>
                             pos' = FrameStart' + 8 * bs'.ends[NumBlocks(bs') - numberOfRawDataBlocks']
      BY <3>1 DEF InFrame
    <3>2. numberOfRawDataBlocks' = numberOfRawDataBlocks /\ syncOk' = syncOk
      BY <1>2, <2>2, InvTypes
    <3> QED BY <1>1, <1>2, <1>4, <2>2, <3>2 DEF IInv, InFrame
  <2> QED BY <1>2, <2>1, <2>2
<1>8. BehindFrame'
  <2>1. CASE result' = "SyncError"
    BY <1>2, <2>1 DEF BehindFrame
  <2>2. CASE result' = "NotEnough"
    BY <1>1, <1>2, <1>4, <2>2 DEF IInv, BehindFrame
  <2> QED BY <1>2, <2>1, <2>2
<1> QED BY <1>2, <1>3, <1>5, <1>6, <1>7, <1>8 DEF IInv

\* The reader is pulled back to the end of a frame whose blocks are elsewhere.
PulledBack ==
  /\ bs.protected /\ ~WellPlaced(bs) /\ numberOfRawDataBlocks' = 0
  /\ \/ result' = "Ok" /\ pos' = FrameEnd
     \/ result' = "Interrupted" /\ pos' >= FrameEnd

LEMMA DecodeInterruptedKeepsInv ==
  ASSUME IInv, NEW bits \in Misread, DecodeInterrupted(bits)
  PROVE  IInv' /\ (pos' >= pos \/ PulledBack) /\ result' = "Interrupted"
<1> DEFINE framePos == IF SyncAt(pos) THEN ValidBits - ADTS_SYNCLENGTH ELSE globalFramePos
<1>1. /\ stream' = stream /\ fed' = fed /\ globalFramePos' = globalFramePos /\ bs' \in HeldHeaders
      /\ frame' = frame /\ taken' = Append(taken, Read.pos) /\ result' = "Interrupted"
      /\ syncOk' = FALSE /\ numberOfRawDataBlocks' = 0
      /\ pos' = IF bs'.protected THEN fed + FrameBits(bs') - ADTS_SYNCLENGTH - framePos
                ELSE Aligned(Read.pos, bits)
  BY DEF DecodeInterrupted
<1>2. syncOk /\ Read.pos = pos + 8 /\ Read.pos \in Nat /\ Read.pos % 8 = 0 /\ Read.pos >= pos
  BY ReadCases, InvTypes DEF DecodeInterrupted
\* The header that is held is the last one accepted, or stands at the reader.
<1>3. bs' = bs \/ (SyncAt(pos) /\ bs' = HeaderAt(pos) /\ GoodHeader(bs'))
  <2>1. bs' = bs \/ (SyncAt(pos) /\ bs' = HeaderAt(pos))
    BY <1>1 DEF HeldHeaders
  <2>2. SyncAt(pos) => GoodHeader(HeaderAt(pos))
    BY InvTypes, StreamHeadersGood DEF SyncAt, HeaderAt
  <2> QED BY <2>1, <2>2
<1>4. bs' \in Header
  <2>1. bs \in Header
    BY InvTypes
  <2> QED BY <1>3, <2>1 DEF GoodHeader
<1>5. ASSUME bs'.protected
      PROVE  pos' \in Nat /\ pos' % 8 = 0 /\ (pos' >= pos \/ PulledBack)
  <2> DEFINE F == FrameBits(bs')
  <2>1. GoodHeader(bs')
    BY <1>2, <1>3, <1>5 DEF IInv, BehindFrame
  <2>2. F \in Nat /\ F % 8 = 0
    <3>1. F = 8 * bs'.ends[NumBlocks(bs')] /\ bs'.ends[NumBlocks(bs')] \in Nat
      BY <2>1, HeaderLengths
    <3> HIDE DEF F
    <3> QED BY <3>1
  <2>3. pos \in Nat /\ pos % 8 = 0 /\ fed \in Int /\ globalFramePos \in Int
    BY InvTypes
  <2>4. CASE SyncAt(pos)
    <3>1. pos' = pos + F
      <4>1. pos' = fed + F - 12 - (fed - pos - 12)
        BY <1>1, <1>5, <2>4 DEF ValidBits, ADTS_SYNCLENGTH
      <4> HIDE DEF F
      <4> QED BY <2>2, <2>3, <4>1
    <3> HIDE DEF F
    <3> QED BY <2>2, <2>3, <3>1, WholeBytes
  <2>5. CASE ~SyncAt(pos)
    <3>1. bs' = bs /\ pos' = fed + F - 12 - globalFramePos
      BY <1>1, <1>3, <1>5, <2>5 DEF ADTS_SYNCLENGTH
    <3>2. FrameStart = fed - globalFramePos - 12 /\ FrameEnd = frame + F
      BY <3>1 DEF FrameStart, FrameEnd, ADTS_SYNCLENGTH
    <3>3. FrameStart % 8 = 0 /\ FrameStart >= 0 /\ (WellPlaced(bs) => pos <= FrameStart + F)
      BY <1>2, <1>5, <3>1 DEF IInv, BehindFrame
    <3> HIDE DEF F
    <3>4. FrameStart \in Nat /\ pos' = FrameStart + F
      BY <2>2, <2>3, <3>1, <3>2, <3>3
    <3>5. pos' \in Nat /\ pos' % 8 = 0
      BY <2>2, <3>3, <3>4, WholeBytes
    <3>6. WellPlaced(bs) => pos' >= pos
      BY <2>2, <2>3, <3>3, <3>4
    <3>7. ~WellPlaced(bs) => PulledBack
      <4>1. frame \in Nat /\ FrameStart >= frame
        BY <1>2, InvTypes DEF IInv, FrameFound
      <4>2. pos' >= FrameEnd
        <5>1. FrameStart + F >= frame + F
          BY <2>2, <3>4, <4>1
        <5>2. FrameEnd = frame + F
          BY <3>2
        <5>3. pos' = FrameStart + F
          BY <3>4
        <5> QED BY <5>1, <5>2, <5>3
      <4> QED BY <1>1, <1>5, <3>1, <4>2 DEF PulledBack
    <3> QED BY <3>5, <3>6, <3>7
  <2> QED BY <2>4, <2>5
<1>6. ASSUME ~bs'.protected
      PROVE  pos' \in Nat /\ pos' % 8 = 0 /\ pos' >= pos
  <2>1. bits \in Int
    BY TransportAssumption
  <2>2. pos' = Aligned(Read.pos, bits)
    BY <1>1, <1>6
  <2>3. Aligned(Read.pos, bits) \in Nat /\ Aligned(Read.pos, bits) % 8 = 0
        /\ Aligned(Read.pos, bits) >= Read.pos
    BY <1>2, <2>1, AlignedForward
  <2> QED BY <1>2, <2>2, <2>3, InvTypes
<1>7. End' = End /\ taken' \in Seq(Nat)
  BY <1>1, <1>2, InvTypes DEF End
<1>8. TypeOK'
  <2>1. fed' \in 0..End'
    BY <1>1, <1>7, InvTypes
  <2> QED BY <1>1, <1>4, <1>5, <1>6, <1>7, <2>1, InvTypes DEF TypeOK
<1>9. Positions'
  BY <1>1, <1>5, <1>6, <1>7, InvTypes DEF Positions
<1>10. FrameFound' /\ InFrame' /\ BehindFrame'
  BY <1>1 DEF FrameFound, InFrame, BehindFrame
<1> QED BY <1>1, <1>5, <1>6, <1>8, <1>9, <1>10 DEF IInv

\* The length of a block, with what belongs to the header in the first one.
LEMMA BlockDistances ==
  ASSUME NEW h, GoodHeader(h)
  PROVE  /\ Dist(h, 1) = 8 * h.ends[1] - HeaderBits(h) /\ PceIn(h, 1) = h.pce
         /\ \A i \in 2..NumBlocks(h) :
              Dist(h, i) \in Nat /\ Dist(h, i) % 8 = 0 /\ PceIn(h, i) = 0
         /\ \A i \in 1..NumBlocks(h) : RawDataBlockLength(h, i) \in Int
<1>1. Dist(h, 1) = 8 * h.ends[1] - HeaderBits(h) /\ PceIn(h, 1) = h.pce
  BY DEF Dist, PceIn, Byte
<1>2. ASSUME NEW i \in 2..NumBlocks(h)
      PROVE  Dist(h, i) \in Nat /\ Dist(h, i) % 8 = 0 /\ PceIn(h, i) = 0
  <2> DEFINE d == (h.ends[i] - h.ends[i - 1]) % 65536
  <2>1. i # 1 /\ i \in 1..NumBlocks(h) /\ i - 1 \in 1..NumBlocks(h)
    BY HeaderLengths
  <2>2. h.ends[i] \in Nat /\ h.ends[i - 1] \in Nat
    BY <2>1, HeaderLengths
  <2>3. d \in Nat
    BY <2>2
  <2>4. Dist(h, i) = 8 * d /\ PceIn(h, i) = 0
    BY <2>1 DEF Dist, PceIn, Byte
  <2> HIDE DEF d
  <2> QED BY <2>3, <2>4
<1>3. ASSUME NEW i \in 1..NumBlocks(h)
      PROVE  RawDataBlockLength(h, i) \in Int
  <2>1. Dist(h, i) \in Int /\ PceIn(h, i) \in Int
    <3>1. CASE i = 1
      BY <1>1, <3>1, HeaderLengths
    <3>2. CASE i # 1
      <4>1. i \in 2..NumBlocks(h)
        BY <3>2, HeaderLengths
      <4> QED BY <1>2, <4>1
    <3> QED BY <3>1, <3>2
  <2> QED BY <2>1 DEF RawDataBlockLength, CrcLength
<1> QED BY <1>1, <1>2, <1>3

\* Blocks that follow each other are as long as their ends are apart.
LEMMA PlacedDistances ==
  ASSUME NEW h, GoodHeader(h), WellPlaced(h), NEW i \in 2..NumBlocks(h)
  PROVE  Dist(h, i) = 8 * h.ends[i] - 8 * h.ends[i - 1]
<1> DEFINE e == h.ends[i]
           d == h.ends[i - 1]
<1>1. i # 1 /\ i \in 1..NumBlocks(h) /\ i - 1 \in 1..NumBlocks(h) /\ NumBlocks(h) \in 1..NumBlocks(h)
  BY HeaderLengths
<1>2. e \in Nat /\ d \in Nat /\ d <= e /\ e < 65536
  <2>1. e \in Nat /\ d \in Nat /\ h.ends[NumBlocks(h)] \in Nat /\ h.ends[NumBlocks(h)] < 8192
    BY <1>1, HeaderLengths
  <2>2. d <= e /\ e <= h.ends[NumBlocks(h)]
    BY <1>1, BlocksInFrame
  <2> HIDE DEF e, d
  <2> QED BY <2>1, <2>2
<1>3. Dist(h, i) = 8 * ((e - d) % 65536)
  BY <1>1 DEF Dist, Byte
<1> HIDE DEF e, d
<1>4. (e - d) % 65536 = e - d
  BY <1>2
<1>5. Dist(h, i) = 8 * e - 8 * d
  BY <1>2, <1>3, <1>4
<1> QED BY <1>5 DEF e, d

\* Without CRC a block ends where it was decoded to, at a byte, or where the buffer
\* ends.
LEMMA DecodedForward ==
  ASSUME NEW h, GoodHeader(h), ~h.protected, NEW i \in 1..NumBlocks(h),
         NEW start \in Nat, start % 8 = 0, NEW missed \in Int, fed \in Nat, fed % 8 = 0,
         NumBlocks(h) = 1 => start <= fed /\ Payload(h) < FrameBits(h)
  PROVE  /\ Decoded(h, i, start, missed) \in Nat /\ Decoded(h, i, start, missed) % 8 = 0
         /\ Decoded(h, i, start, missed) >= start
<1> DEFINE stop == Aligned(start, RawDataBlockLength(h, i) + missed)
<1>1. RawDataBlockLength(h, i) \in Int
  BY BlockDistances
<1>2. CASE NumBlocks(h) = 1
  <2> DEFINE length == FrameBits(h) - Payload(h)
  <2>1. i = 1
    BY <1>2
  <2>2. Decoded(h, i, start, missed) \in {start + RawDataBlockLength(h, i), fed}
    BY <1>2 DEF Decoded, KnownLength
  <2>3. RawDataBlockLength(h, i) = length
    <3>1. /\ Dist(h, 1) = FrameBits(h) - HeaderBits(h) /\ PceIn(h, 1) = h.pce
          /\ Payload(h) = HeaderBits(h) + h.pce
      BY <1>2, BlockDistances, HeaderLengths
    <3>2. FrameBits(h) \in Nat /\ HeaderBits(h) \in Nat /\ h.pce \in Nat
      BY HeaderLengths
    <3>3. RawDataBlockLength(h, i) = Dist(h, 1) - PceIn(h, 1) - 0
      BY <2>1 DEF RawDataBlockLength
    <3> QED BY <3>1, <3>2, <3>3
  <2>4. length \in Nat /\ length % 8 = 0
    <3>1. FrameBits(h) \in Nat /\ Payload(h) \in Nat /\ Payload(h) % 8 = 0 /\ Payload(h) < FrameBits(h)
      BY <1>2, HeaderLengths
    <3>2. FrameBits(h) % 8 = 0
      <4>1. FrameBits(h) = 8 * h.ends[NumBlocks(h)] /\ h.ends[NumBlocks(h)] \in Nat
        BY HeaderLengths
      <4> QED BY <4>1
    <3> QED BY <3>1, <3>2, WholeBytes
  <2> HIDE DEF length
  <2>5. start + length \in Nat /\ (start + length) % 8 = 0 /\ start + length >= start
    BY <2>4, WholeBytes
  <2>6. start <= fed
    BY <1>2
  <2> QED BY <2>2, <2>3, <2>5, <2>6
<1>3. CASE NumBlocks(h) # 1
  <2> DEFINE bits == RawDataBlockLength(h, i) + missed
  <2>1. Decoded(h, i, start, missed) = Aligned(start, bits)
    BY <1>3 DEF Decoded, KnownLength
  <2>2. bits \in Int
    BY <1>1
  <2> HIDE DEF bits
  <2> QED BY <2>1, <2>2, AlignedForward
<1> QED BY <1>2, <1>3

LEMMA DecodeAccessUnitKeepsInv ==
  ASSUME IInv, NEW missed \in Int, DecodeAccessUnit(missed)
  PROVE  IInv' /\ (pos' >= pos \/ PulledBack) /\ result' = "Ok"
<1> DEFINE h == Read.header
           start == Read.pos
           left == BlocksAfter(h)
           i == NumBlocks(h) - left
           framePos == IF BlocksLeft = 0 THEN fed - (start - Payload(h)) - 12 ELSE globalFramePos
           S == fed - framePos - 12
           begin == IF BlocksLeft = 0 THEN start - Payload(h) ELSE frame
<1>1. /\ Read.result = "Ok"
      /\ pos' = EndAccessUnit(h, i, start, Decoded(h, i, start, missed), framePos)
      /\ numberOfRawDataBlocks' = left /\ globalFramePos' = framePos /\ bs' = h
      /\ syncOk' = TRUE /\ result' = "Ok" /\ taken' = Append(taken, start)
      /\ frame' = begin /\ stream' = stream /\ fed' = fed
  BY InvTypes DEF DecodeAccessUnit
\* The first block of a frame begins behind its header, another where the last one
\* ended.
<1>2. /\ GoodHeader(h) /\ h \in Header /\ start \in Nat /\ start % 8 = 0 /\ start >= pos
      /\ left \in 0..3 /\ left < NumBlocks(h) /\ framePos \in Int /\ S \in Int
      /\ begin = S /\ begin \in Nat /\ (i # 1 => begin = frame)
      /\ i = 1 => /\ S % 8 = 0 /\ S >= pos /\ start = S + Payload(h)
                  /\ Payload(h) < FrameBits(h) /\ fed >= S + FrameBits(h)
      /\ i # 1 => h = bs /\ start = pos /\ S = FrameStart
      /\ i # 1 /\ h.protected => S % 8 = 0 /\ S >= 0
      /\ i # 1 /\ h.protected /\ WellPlaced(h) =>
           pos = S + 8 * h.ends[i - 1] /\ pos <= S + FrameBits(h)
  <2>1. CASE BlocksLeft > 0
    <3>1. /\ h = bs /\ start = pos /\ BlocksLeft = numberOfRawDataBlocks /\ framePos = globalFramePos
          /\ numberOfRawDataBlocks > 0 /\ left = numberOfRawDataBlocks - 1
      BY <1>1, <2>1, ReadCases, InvTypes DEF BlocksAfter
    <3>2. /\ syncOk /\ GoodHeader(bs) /\ numberOfRawDataBlocks < NumBlocks(bs)
          /\ bs.protected => FrameStart % 8 = 0 /\ FrameStart >= 0
          /\ bs.protected /\ WellPlaced(bs) =>
               /\ pos = FrameStart + 8 * bs.ends[NumBlocks(bs) - numberOfRawDataBlocks]
               /\ pos <= FrameStart + FrameBits(bs)
      BY <3>1 DEF IInv, InFrame, BehindFrame
    <3>3. S = FrameStart /\ begin = frame /\ FrameStart = frame /\ frame \in Nat
      <4>1. FrameStart = frame
        BY <3>1 DEF IInv, FrameFound
      <4> QED BY <2>1, <3>1, <4>1, InvTypes DEF FrameStart, ADTS_SYNCLENGTH
    <3>4. FrameStart \in Int
      BY InvTypes DEF FrameStart
    <3> HIDE DEF h, start, left, framePos, S, begin
    <3>5. NumBlocks(bs) \in 1..4 /\ numberOfRawDataBlocks \in 1..3
      BY <3>1, <3>2, HeaderLengths, InvTypes
    <3>6. i # 1 /\ i - 1 = NumBlocks(bs) - numberOfRawDataBlocks /\ left \in 0..3 /\ left < NumBlocks(h)
      BY <3>1, <3>2, <3>5
    <3>7. pos \in Nat /\ pos % 8 = 0 /\ pos >= pos /\ bs \in Header /\ globalFramePos \in Int
      BY InvTypes
    <3> QED BY <3>1, <3>2, <3>3, <3>4, <3>6, <3>7
  <2>2. CASE BlocksLeft = 0
    <3>1. PICK q \in Nat : /\ q >= pos /\ q % 8 = 0 /\ GoodHeader(HeaderAt(q))
                           /\ h = HeaderAt(q) /\ start = q + Payload(HeaderAt(q))
                           /\ fed - q >= FrameBits(HeaderAt(q))
                           /\ Payload(HeaderAt(q)) < FrameBits(HeaderAt(q))
      BY <1>1, <2>2, ReadCases
    <3>2. /\ left = NumBlocks(h) - 1 /\ framePos = fed - (start - Payload(h)) - 12
          /\ begin = start - Payload(h)
      BY <2>2 DEF BlocksAfter
    <3> HIDE DEF h, start, left, framePos, begin
    <3>3. NumBlocks(h) \in 1..4 /\ Payload(h) \in Nat /\ Payload(h) % 8 = 0 /\ FrameBits(h) \in Nat
      BY <3>1, HeaderLengths
    <3>4. i = 1 /\ left \in 0..3 /\ left < NumBlocks(h)
      BY <3>2, <3>3
    <3>5. start % 8 = 0
      <4>1. q \in Int /\ Payload(h) \in Int
        BY <3>3
      <4> QED BY <3>1, <3>3, <4>1, WholeBytes
    <3>6. start \in Nat /\ start >= pos
      <4>1. pos \in Nat
        BY InvTypes
      <4> QED BY <3>1, <3>3, <4>1
    <3>7. framePos \in Int /\ S = q /\ begin = q /\ fed >= q + FrameBits(h)
      <4>1. fed \in Nat
        BY InvTypes
      <4> QED BY <3>1, <3>2, <3>3, <4>1
    <3>8. h \in Header
      BY <3>1 DEF GoodHeader
    <3> HIDE DEF S
    <3> QED BY <3>1, <3>3, <3>4, <3>5, <3>6, <3>7, <3>8
  <2> QED BY <2>1, <2>2, InvTypes
<1>3. S = FrameStart'
  <2> HIDE DEF framePos
  <2>1. fed \in Int /\ framePos \in Int
    BY <1>2, InvTypes
  <2> QED BY <1>1, <2>1 DEF FrameStart, ADTS_SYNCLENGTH
<1>4. pos' = IF ~h.protected THEN Decoded(h, i, start, missed)
             ELSE IF i = NumBlocks(h) THEN S + FrameBits(h)
             ELSE start + Dist(h, i) - PceIn(h, i)
  <2>1. fed \in Int /\ FrameBits(h) \in Int /\ framePos \in Int
    BY <1>2, HeaderLengths, InvTypes
  <2> HIDE DEF h, start, left, framePos
  <2>2. fed + FrameBits(h) - 12 - framePos = S + FrameBits(h)
    BY <2>1
  <2> QED BY <1>1, <2>2 DEF EndAccessUnit, ADTS_SYNCLENGTH
<1> HIDE DEF h, start, left, framePos, S, begin
<1>5. NumBlocks(h) \in 1..4 /\ i \in 1..NumBlocks(h) /\ left = NumBlocks(h) - i
  <2>1. NumBlocks(h) \in 1..4
    BY <1>2, HeaderLengths
  <2>2. left \in 0..3 /\ left < NumBlocks(h)
    BY <1>2
  <2> QED BY <2>1, <2>2
<1>6. pos \in Nat /\ fed \in Nat /\ fed % 8 = 0
  BY InvTypes
<1>7. /\ FrameBits(h) \in Nat /\ FrameBits(h) % 8 = 0 /\ FrameBits(h) = 8 * h.ends[NumBlocks(h)]
      /\ \A k \in 1..NumBlocks(h) : h.ends[k] \in Nat
  <2>1. /\ FrameBits(h) = 8 * h.ends[NumBlocks(h)] /\ \A k \in 1..NumBlocks(h) : h.ends[k] \in Nat
        /\ h.ends[NumBlocks(h)] \in Nat
    BY <1>2, HeaderLengths
  <2> QED BY <2>1
\* A protected block ends where the header says, the last one at the end of the frame.
<1>8. ASSUME h.protected
      PROVE  /\ pos' \in Nat /\ pos' % 8 = 0 /\ (pos' >= pos \/ PulledBack)
             /\ WellPlaced(h) => pos' = S + 8 * h.ends[i]
  <2>1. CASE i = NumBlocks(h)
    <3>1. pos' = S + FrameBits(h) /\ S % 8 = 0 /\ S >= 0
      BY <1>2, <1>4, <1>6, <1>8, <2>1
    <3>2. pos' \in Nat /\ pos' % 8 = 0 /\ pos' = S + 8 * h.ends[i]
      BY <1>2, <1>7, <2>1, <3>1, WholeBytes
    <3>3. i = 1 \/ WellPlaced(h) => pos' >= pos
      BY <1>2, <1>6, <1>7, <1>8, <3>1
    <3>4. i # 1 /\ ~WellPlaced(h) => PulledBack
      <4> SUFFICES ASSUME i # 1, ~WellPlaced(h)
                   PROVE  PulledBack
        OBVIOUS
      <4>1. bs = h /\ S = frame
        BY <1>2
      <4>2. pos' = FrameEnd
        BY <3>1, <4>1 DEF FrameEnd
      <4>3. left = 0
        BY <1>5, <2>1
      <4> QED BY <1>1, <1>8, <4>1, <4>2, <4>3 DEF PulledBack
    <3> QED BY <3>2, <3>3, <3>4
  <2>2. CASE i # NumBlocks(h) /\ i = 1
    <3>1. pos' = start + (8 * h.ends[1] - HeaderBits(h)) - h.pce
      BY <1>2, <1>4, <1>8, <2>2, BlockDistances
    <3>2. /\ HeaderBits(h) \in Nat /\ h.pce \in Nat /\ Payload(h) = HeaderBits(h) + h.pce
          /\ h.ends[1] \in Nat
      BY <1>2, <1>5, HeaderLengths
    <3>3. pos' = S + 8 * h.ends[1] /\ S >= pos /\ S % 8 = 0
      BY <1>2, <2>2, <3>1, <3>2
    <3>4. (8 * h.ends[1]) % 8 = 0
      BY <3>2
    <3> QED BY <1>2, <1>6, <2>2, <3>2, <3>3, <3>4, WholeBytes
  <2>3. CASE i # NumBlocks(h) /\ i # 1
    <3>1. i \in 2..NumBlocks(h) /\ i - 1 \in 1..NumBlocks(h)
      BY <1>5, <2>3
    <3>2. pos' = pos + Dist(h, i) - 0 /\ Dist(h, i) \in Nat /\ Dist(h, i) % 8 = 0
      BY <1>2, <1>4, <1>8, <2>3, <3>1, BlockDistances
    <3>3. pos' \in Nat /\ pos' % 8 = 0 /\ pos' >= pos
      <4> DEFINE d == Dist(h, i)
      <4>1. d \in Nat /\ d % 8 = 0 /\ pos' = pos + d /\ pos % 8 = 0
        BY <3>2, InvTypes
      <4> HIDE DEF d
      <4>2. (pos + d) % 8 = 0
        BY <1>6, <4>1, WholeBytes
      <4> QED BY <1>6, <4>1, <4>2
    <3>4. WellPlaced(h) => pos' = S + 8 * h.ends[i]
      <4> SUFFICES ASSUME WellPlaced(h)
                   PROVE  pos' = S + 8 * h.ends[i]
        OBVIOUS
      <4>1. Dist(h, i) = 8 * h.ends[i] - 8 * h.ends[i - 1]
        BY <1>2, <3>1, PlacedDistances
      <4>2. pos = S + 8 * h.ends[i - 1] /\ h.ends[i] \in Nat /\ h.ends[i - 1] \in Nat
        BY <1>2, <1>5, <1>7, <1>8, <2>3, <3>1
      <4> DEFINE e == h.ends[i]
                 d == h.ends[i - 1]
      <4>3. pos' = pos + (8 * e - 8 * d) /\ pos = S + 8 * d /\ e \in Nat /\ d \in Nat /\ S \in Int
        <5>1. pos' = pos + Dist(h, i)
          BY <3>2
        <5>2. S \in Int
          BY <1>2
        <5> QED BY <4>1, <4>2, <5>1, <5>2
      <4> HIDE DEF e, d
      <4>4. pos' = S + 8 * e
        BY <4>3
      <4> QED BY <4>4 DEF e
    <3> QED BY <3>3, <3>4
  <2> QED BY <2>1, <2>2, <2>3
<1>9. ASSUME ~h.protected
      PROVE  pos' \in Nat /\ pos' % 8 = 0 /\ pos' >= pos
  <2>1. NumBlocks(h) = 1 => start <= fed /\ Payload(h) < FrameBits(h)
    <3>1. Payload(h) \in Nat
      BY <1>2, HeaderLengths
    <3>2. NumBlocks(h) = 1 => i = 1
      BY <1>5
    <3> QED BY <1>2, <1>6, <1>7, <3>1, <3>2
  <2>2. /\ Decoded(h, i, start, missed) \in Nat /\ Decoded(h, i, start, missed) % 8 = 0
        /\ Decoded(h, i, start, missed) >= start
    BY <1>2, <1>5, <1>6, <1>9, <2>1, DecodedForward
  <2>3. pos' = Decoded(h, i, start, missed)
    BY <1>4, <1>9
  <2> QED BY <1>2, <1>6, <2>2, <2>3
<1>10. pos' \in Nat /\ pos' % 8 = 0 /\ (pos' >= pos \/ PulledBack)
  BY <1>8, <1>9
<1>11. End' = End /\ taken' \in Seq(Nat) /\ fed' \in 0..End'
  BY <1>1, <1>2, InvTypes DEF End
<1>12. TypeOK' /\ FrameFound'
  <2>1. TypeOK'
    BY <1>1, <1>2, <1>10, <1>11, InvTypes DEF TypeOK
  <2>2. FrameFound'
    <3>1. FrameStart' = frame' /\ frame' \in Nat
      BY <1>1, <1>2, <1>3
    <3> QED BY <3>1 DEF FrameFound
  <2> QED BY <2>1, <2>2
<1>13. Positions'
  <2>1. fed \in Nat /\ fed <= End /\ fed % 8 = 0
    BY InvTypes
  <2> QED BY <1>1, <1>10, <1>11, <2>1 DEF Positions
<1>14. InFrame'
  <2>1. h.protected /\ WellPlaced(h) => pos' = FrameStart' + 8 * h.ends[NumBlocks(h) - left]
    <3>1. NumBlocks(h) - left = i
      BY <1>5
    <3> QED BY <1>3, <1>8, <3>1
  <2> QED BY <1>1, <1>2, <2>1 DEF InFrame
<1>15. BehindFrame'
  <2>1. ASSUME h.protected
        PROVE  FrameStart' % 8 = 0 /\ FrameStart' >= 0
    <3>1. CASE i = 1
      <4>1. S \in Int /\ S % 8 = 0 /\ S >= pos
        BY <1>2, <3>1
      <4>2. S >= 0
        BY <1>6, <4>1
      <4> QED BY <1>3, <4>1, <4>2
    <3>2. CASE i # 1
      <4>1. S % 8 = 0 /\ S >= 0
        BY <1>2, <2>1, <3>2
      <4> QED BY <1>3, <4>1
    <3> QED BY <3>1, <3>2
  <2>2. ASSUME h.protected, WellPlaced(h)
        PROVE  pos' <= FrameStart' + FrameBits(h)
    <3>1. h.ends[i] \in Nat /\ h.ends[NumBlocks(h)] \in Nat
      BY <1>5, <1>7
    <3>2. h.ends[i] <= h.ends[NumBlocks(h)]
      BY <1>2, <1>5, <2>2, BlocksInFrame
    <3>3. pos' = S + 8 * h.ends[i]
      BY <1>8, <2>2
    <3>4. S + 8 * h.ends[i] <= S + FrameBits(h)
      BY <1>2, <1>7, <3>1, <3>2
    <3> QED BY <1>3, <3>3, <3>4
  <2> QED BY <1>1, <1>2, <2>1, <2>2 DEF BehindFrame
<1> QED BY <1>1, <1>10, <1>12, <1>13, <1>14, <1>15 DEF IInv

-----------------------------------------------------------------------------
LEMMA NextKeepsInv ==
  ASSUME IInv, [Next]_vars
  PROVE  /\ IInv' /\ (pos' < pos => (Reset /\ pos > fed) \/ PulledBack)
         /\ NoAccessUnit /\ result' = "SyncError" => syncOk
<1>1. pos \in Nat /\ fed \in Nat
  BY InvTypes
<1>2. NoAccessUnit /\ result' = "SyncError" => syncOk
  BY NoAccessUnitKeepsInv
<1>3. CASE Fill
  <2>1. PICK n \in 1..MaxChunk : FillData(n)
    BY <1>3 DEF Fill
  <2>2. IInv' /\ pos' = pos
    BY <2>1, FillDataKeepsInv DEF FillData
  <2> QED BY <1>1, <1>2, <2>2
<1>4. CASE NoAccessUnit
  <2>1. IInv' /\ pos' >= pos
    BY <1>4, NoAccessUnitKeepsInv
  <2>2. pos' \in Nat
    BY <2>1 DEF IInv, Positions
  <2> QED BY <1>1, <1>2, <2>1, <2>2
<1>5. CASE \E missed \in IF stream.played THEN {0} ELSE Misread : DecodeAccessUnit(missed)
  <2>1. PICK missed \in IF stream.played THEN {0} ELSE Misread : DecodeAccessUnit(missed)
    BY <1>5
  <2>2. missed \in Int
    BY <2>1, TransportAssumption
  <2>3. IInv' /\ (pos' >= pos \/ PulledBack)
    BY <2>1, <2>2, DecodeAccessUnitKeepsInv
  <2>4. pos' \in Nat
    BY <2>3 DEF IInv, Positions
  <2> QED BY <1>1, <1>2, <2>3, <2>4
<1>6. CASE Reset
  <2>1. IInv' /\ pos' = fed
    BY <1>6, ResetKeepsInv DEF Reset
  <2> QED BY <1>1, <1>2, <1>6, <2>1
<1>7. CASE \E bits \in Misread : DecodeInterrupted(bits)
  <2>1. PICK bits \in Misread : DecodeInterrupted(bits)
    BY <1>7
  <2>2. IInv' /\ (pos' >= pos \/ PulledBack)
    BY <2>1, DecodeInterruptedKeepsInv
  <2>3. pos' \in Nat
    BY <2>2 DEF IInv, Positions
  <2> QED BY <1>1, <1>2, <2>2, <2>3
<1>8. CASE UNCHANGED vars
  <2>1. IInv' /\ pos' = pos
    BY <1>8 DEF vars, IInv, TypeOK, Positions, FrameFound, InFrame, BehindFrame, End, FrameStart
  <2> QED BY <1>1, <1>2, <2>1
<1> QED BY <1>3, <1>4, <1>5, <1>6, <1>7, <1>8 DEF Next, DecodeFrame

LEMMA Invariant == Spec => []IInv
<1>1. Init => IInv
  BY InitSound
<1>2. IInv /\ [Next]_vars => IInv'
  BY NextKeepsInv
<1> QED BY <1>1, <1>2, PTL DEF Spec

-----------------------------------------------------------------------------
\* The variables of the transport decoder are what they are in the code: above
\* all, there are never four raw data blocks or more to go on with, and
\* positions are never negative.
THEOREM TransportTypeCorrect == Spec => []TypeOK
<1>1. IInv => TypeOK
  BY DEF IInv
<1> QED BY <1>1, Invariant, PTL

\* Whenever transportDec_ReadAccessUnit looks for a sync word, the reader is at
\* a byte: the FDK_ASSERT of synchronization on bitsAvail holds.
THEOREM SearchIsAligned == Spec => []SearchesAligned
<1>1. ASSUME IInv
      PROVE  SearchesAligned
  <2>1. fed \in Int /\ pos \in Int /\ fed % 8 = 0 /\ pos % 8 = 0
    BY <1>1 DEF IInv, Positions
  <2>2. (fed - pos) % 8 = 0
    BY <2>1, WholeBytes
  <2> QED BY <2>2 DEF SearchesAligned, ValidBits, Byte
<1> QED BY <1>1, Invariant, PTL

\* No search moves the reader back: the FDK_ASSERT of transportDec_readStream on
\* bitDistance holds.
LEMMA ReadGoesForward ==
  ASSUME IInv
  PROVE  Read.pos >= pos
<1>1. pos \in Nat
  BY InvTypes
<1>2. CASE Read.result = "Ok" /\ BlocksLeft = 0
  <2>1. PICK q \in Nat : /\ q >= pos /\ GoodHeader(HeaderAt(q))
                         /\ Read.pos = q + Payload(HeaderAt(q))
    BY <1>2, ReadCases
  <2>2. Payload(HeaderAt(q)) \in Nat
    BY <2>1, HeaderLengths
  <2> QED BY <1>1, <2>1, <2>2
<1>3. CASE ~(Read.result = "Ok" /\ BlocksLeft = 0)
  BY <1>1, <1>3, ReadCases
<1> QED BY <1>2, <1>3

\* Wherever the positions in the headers put the blocks, and wherever damaged ones end:
\* no search moves the reader back, and no end of an access unit does, but for the one
\* transportDec_EndAccessUnit is there for, which takes a reader whose frame's blocks are
\* not where its length says to the end of that frame; and a reset, which brings it from
\* behind the buffer's end to it.
THEOREM ReaderGoesForward == Spec => NeverMovesBack
<1> DEFINE Step == /\ Read.pos >= pos
                   /\ pos' < pos =>
                        \/ Reset /\ pos > fed
                        \/ /\ bs.protected /\ ~WellPlaced(bs)
                           /\ numberOfRawDataBlocks' = 0
                           /\ \/ result' = "Ok" /\ pos' = FrameEnd
                              \/ result' = "Interrupted" /\ pos' >= FrameEnd
<1>1. IInv /\ [Next]_vars => [Step]_vars
  BY NextKeepsInv, ReadGoesForward DEF PulledBack
<1>2. NeverMovesBack <=> [][Step]_vars
  BY PTL DEF NeverMovesBack
<1> HIDE DEF Step
<1> QED BY <1>1, <1>2, Invariant, PTL DEF Spec

\* aacDecoder_DecodeFrame reports a loss of sync only when it was in sync: while
\* it searches it asks for more bits, and the full buffer never makes it give up
\* a byte and report another loss.
THEOREM LossIsReportedOnce == Spec => ReportsLossOnce
<1>1. IInv /\ [Next]_vars => [NoAccessUnit /\ result' = "SyncError" => syncOk]_vars
  BY NextKeepsInv
<1> QED BY <1>1, Invariant, PTL DEF Spec, ReportsLossOnce
-----------------------------------------------------------------------------
\* The sync words between p and `end' a search may stop at, and where it stops.
Found(p, end) == {q \in {Byte * b : b \in DOMAIN stream.header} :
                    p <= q /\ q <= end - 2 * Byte /\ ReadHeader(q, end) # "SyncError"}
First(p, end, q) ==
  Found(p, end) \subseteq Nat /\ q \in Found(p, end) /\ \A r \in Found(p, end) : q <= r

StopsAtFirst == \A p, end, q : First(p, end, q) => Search(p, end) = Examined(q, end)

Searched(found, end) ==
  IF found = {} THEN NoUnit("NotEnough", end - 8)
  ELSE [q \in found |-> Examined(q, end)][CHOOSE q \in found : \A r \in found : q <= r]

LEMMA SearchIn == \A p, end : Search(p, end) = Searched(Found(p, end), end)
BY DEF Search, Searched, Found, Byte

LEMMA SearchStops == StopsAtFirst
<1> USE DEF StopsAtFirst
<1> TAKE p, end, q
<1>1. ASSUME First(p, end, q)
      PROVE  Search(p, end) = Examined(q, end)
  <2> DEFINE s == CHOOSE x \in Found(p, end) : \A r \in Found(p, end) : x <= r
  <2>1. s \in Found(p, end) /\ \A r \in Found(p, end) : s <= r
    BY <1>1 DEF First
  <2>2. s = q
    <3> HIDE DEF s
    <3>1. s \in Nat /\ q \in Nat /\ s <= q /\ q <= s
      BY <1>1, <2>1 DEF First
    <3> QED BY <3>1
  <2>3. Found(p, end) # {}
    BY <1>1 DEF First
  <2>4. Search(p, end) = [x \in Found(p, end) |-> Examined(x, end)][s]
    BY <2>3, SearchIn DEF Searched
  <2> HIDE DEF s
  <2> QED BY <2>1, <2>2, <2>4
<1> QED BY <1>1

LEMMA FoundAt ==
  ASSUME stream \in Streams, NEW p \in Nat, NEW end \in Int, NEW q
  PROVE  q \in Found(p, end) <=> /\ q \in Nat /\ SyncAt(q) /\ p <= q /\ q <= end - 16
                                 /\ ReadHeader(q, end) # "SyncError"
<1>1. ASSUME q \in Found(p, end)
      PROVE  /\ q \in Nat /\ SyncAt(q) /\ p <= q /\ q <= end - 16
             /\ ReadHeader(q, end) # "SyncError"
  <2>1. PICK b \in DOMAIN stream.header : q = 8 * b
    BY <1>1 DEF Found, Byte
  <2>2. b \in Nat /\ q \in Nat /\ q % 8 = 0 /\ q \div 8 = b
    BY <2>1, TransportAssumption
  <2>3. SyncAt(q)
    BY <2>1, <2>2 DEF SyncAt, Byte
  <2>4. p <= q /\ q <= end - 16 /\ ReadHeader(q, end) # "SyncError"
    BY <1>1 DEF Found, Byte
  <2> QED BY <2>2, <2>3, <2>4
<1>2. ASSUME q \in Nat, SyncAt(q), p <= q, q <= end - 16, ReadHeader(q, end) # "SyncError"
      PROVE  q \in Found(p, end)
  <2>1. q = 8 * (q \div 8) /\ q \div 8 \in DOMAIN stream.header
    BY <1>2 DEF SyncAt, Byte
  <2> QED BY <1>2, <2>1 DEF Found, Byte
<1> QED BY <1>1, <1>2

LEMMA FoundFirst ==
  ASSUME stream \in Streams, NEW p \in Nat, NEW end \in Int, Found(p, end) # {}
  PROVE  \E q \in Nat : First(p, end, q)
<1>1. Found(p, end) \subseteq Nat
  BY FoundAt
<1>2. \E q \in Found(p, end) : \A r \in Found(p, end) : q <= r
  BY <1>1, LeastPosition
<1> QED BY <1>1, <1>2 DEF First

\* What comes next is told by the stream, the header of the frame and the three
\* variables synchronization looks at, before and after a step.
LEMMA UpcomingNext ==
  ASSUME IInv, IInv', stream' = stream, bs' = bs
  PROVE  Upcoming' = Synchronization(pos', End, syncOk', numberOfRawDataBlocks')
<1>1. \A q : (SyncAt(q)' <=> SyncAt(q)) /\ HeaderAt(q)' = HeaderAt(q)
  BY DEF SyncAt, HeaderAt
<1>2. \A q, e : ReadHeader(q, e)' = ReadHeader(q, e)
  BY <1>1 DEF ReadHeader
<1>3. \A q, e : Examined(q, e)' = Examined(q, e)
  BY <1>1, <1>2 DEF Examined
<1>4. ASSUME stream \in Streams, NEW p \in Nat, NEW e \in Int
      PROVE  Search(p, e)' = Search(p, e)
  <2>1. Found(p, e)' = Found(p, e) /\ (\A q : First(p, e, q)' <=> First(p, e, q))
    BY <1>2 DEF Found, First
  <2>2. CASE Found(p, e) = {}
    <3>1. Found(p, e)' = {} => Search(p, e)' = NoUnit("NotEnough", e - 8)
      BY DEF Search, Found, Byte
    <3>2. Search(p, e) = NoUnit("NotEnough", e - 8)
      BY <2>2 DEF Search, Found, Byte
    <3> QED BY <2>1, <2>2, <3>1, <3>2
  <2>3. CASE Found(p, e) # {}
    <3>1. PICK q \in Nat : First(p, e, q)
      BY <1>4, <2>3, FoundFirst
    <3>2. StopsAtFirst'
      BY SearchStops, PTL
    <3>3. Search(p, e)' = Examined(q, e)'
      BY <2>1, <3>1, <3>2 DEF StopsAtFirst
    <3> QED BY <1>3, <3>1, <3>3, SearchStops DEF StopsAtFirst
  <2> QED BY <2>2, <2>3
<1>5. \A p, e : NextFrame(p, e)' = NextFrame(p, e)
  BY <1>1, <1>3 DEF NextFrame
<1>6. \A p, e : NextBlock(p, e)' = NextBlock(p, e)
  BY DEF NextBlock
<1>7. End' = End
  BY DEF End
<1>8. stream \in Streams /\ pos' \in Nat /\ End \in Int
  <2>1. pos' \in Nat
    BY DEF IInv, Positions
  <2> QED BY <2>1, InvTypes
<1>9. \A p \in Nat, e \in Int : Search(p, e)' = Search(p, e)
  BY <1>4, <1>8
<1> QED BY <1>5, <1>6, <1>7, <1>8, <1>9 DEF Upcoming, Synchronization

-----------------------------------------------------------------------------
\* More of the stream changes nothing about a frame that was accepted or rejected.
LEMMA HeaderKnown ==
  ASSUME stream \in Streams, NEW q \in Nat, SyncAt(q), NEW end \in Int
  PROVE  /\ end - q < 56 => ReadHeader(q, end) = "NotEnough"
         /\ ReadHeader(q, end) = "NotEnough" => \/ end - q < HeaderBits(HeaderAt(q))
                                                \/ end - q < FrameBits(HeaderAt(q))
                                                \/ HeaderAt(q).kind = "Unsupported"
         /\ \A whole \in Int : end <= whole /\ ReadHeader(q, end) # "NotEnough" =>
              ReadHeader(q, whole) = ReadHeader(q, end)
<1> DEFINE h == HeaderAt(q)
           F == FrameBits(h)
           H == HeaderBits(h)
<1>1. GoodHeader(h)
  BY StreamHeadersGood DEF SyncAt, HeaderAt
<1>2. F \in Int /\ H \in Int /\ H >= 56
  BY <1>1, HeaderLengths
<1>3. \A e : ReadHeader(q, e) =
               IF (e - q < H \/ e - q < F) \/ (h.kind = "Unsupported" /\ e - q < H + F)
               THEN "NotEnough" ELSE IF Accepted(h) THEN "Ok" ELSE "SyncError"
  BY DEF ReadHeader
<1> HIDE DEF h, F, H
<1>4. end - q < 56 => ReadHeader(q, end) = "NotEnough"
  BY <1>2, <1>3
<1>5. ASSUME NEW whole \in Int, end <= whole, ReadHeader(q, end) # "NotEnough"
      PROVE  ReadHeader(q, whole) = ReadHeader(q, end)
  <2>1. ~(end - q < H \/ end - q < F) /\ ~(h.kind = "Unsupported" /\ end - q < H + F)
    BY <1>3, <1>5
  <2>2. ~(whole - q < H \/ whole - q < F) /\ ~(h.kind = "Unsupported" /\ whole - q < H + F)
    BY <1>2, <1>5, <2>1
  <2> QED BY <1>3, <2>1, <2>2
<1>6. ReadHeader(q, end) = "NotEnough" => end - q < H \/ end - q < F \/ h.kind = "Unsupported"
  BY <1>3
<1> QED BY <1>4, <1>5, <1>6 DEF h, F, H

\* A search over more of the stream stops at nothing that a search over less of it
\* has passed.
LEMMA FoundLater ==
  ASSUME stream \in Streams, NEW p \in Nat, NEW p2 \in Nat, p <= p2, p2 % 8 = 0,
         NEW end \in Int, NEW whole \in Int, end <= whole, p2 <= end - 8,
         \A r \in Found(p, end) : p2 <= r
  PROVE  Found(p2, whole) = Found(p, whole)
<1>1. ASSUME NEW r \in Found(p, whole)
      PROVE  r \in Found(p2, whole)
  <2>1. r \in Nat /\ SyncAt(r) /\ p <= r /\ r <= whole - 16 /\ ReadHeader(r, whole) # "SyncError"
    BY <1>1, FoundAt
  <2>2. ~(r < p2)
    <3> SUFFICES ASSUME r < p2 PROVE FALSE
      OBVIOUS
    <3>1. r % 8 = 0
      BY <2>1 DEF SyncAt, Byte
    <3>2. r <= end - 16
      BY <2>1, <3>1
    <3>3. ReadHeader(r, end) = "SyncError"
      <4>1. r \notin Found(p, end)
        BY <2>1
      <4> QED BY <2>1, <3>2, <4>1, FoundAt
    <3>4. ReadHeader(r, whole) = ReadHeader(r, end)
      BY <2>1, <3>3, HeaderKnown
    <3> QED BY <2>1, <3>3, <3>4
  <2>3. p2 <= r
    BY <2>1, <2>2
  <2> QED BY <2>1, <2>3, FoundAt
<1>2. ASSUME NEW r \in Found(p2, whole)
      PROVE  r \in Found(p, whole)
  <2>1. r \in Nat /\ SyncAt(r) /\ p2 <= r /\ r <= whole - 16 /\ ReadHeader(r, whole) # "SyncError"
    BY <1>2, FoundAt
  <2>2. p <= r
    BY <2>1
  <2> QED BY <2>1, <2>2, FoundAt
<1> QED BY <1>1, <1>2
-----------------------------------------------------------------------------
\* The full buffer never has to be given up: what is read is what synchronization
\* finds.
LEMMA ReadIs ==
  ASSUME IInv
  PROVE  Read = Synchronization(pos, fed, syncOk, BlocksLeft)
<1> DEFINE o == Synchronization(pos, fed, syncOk, BlocksLeft)
<1>1. o.result = "NotEnough" => fed - o.pos < BufBits - 7
  BY SynchronizationCases
<1>2. o.result = "NotEnough" => o.pos \in Int /\ fed \in Int /\ BufBits \in Int
  <2>1. o.result = "NotEnough" => o.pos \in Nat
    BY SynchronizationCases
  <2> QED BY <2>1, InvTypes
<1>3. Read = Unblocked(o)
  BY DEF Read
<1> HIDE DEF o
<1>4. Unblocked(o) = o
  BY <1>1, <1>2 DEF Unblocked
<1> QED BY <1>3, <1>4 DEF o

\* Synchronization, case by case.
LEMMA SynchronizationIs ==
  ASSUME NEW p \in Int, NEW end \in Int, NEW s \in BOOLEAN, NEW b \in Nat
  PROVE  /\ b > 0 /\ end > p => Synchronization(p, end, s, b) = NextBlock(p, end)
         /\ b > 0 /\ end <= p => Synchronization(p, end, s, b) = NoUnit("NotEnough", p)
         /\ b = 0 /\ end - p < 20 => Synchronization(p, end, s, b) = NoUnit("NotEnough", p)
         /\ b = 0 /\ end - p >= 20 /\ s => Synchronization(p, end, s, b) = NextFrame(p, end)
         /\ b = 0 /\ end - p >= 20 /\ ~s => Synchronization(p, end, s, b) = Search(p, end)
<1>1. /\ end - p - ADTS_SYNCLENGTH < Byte <=> end - p < 20
      /\ end - p - ADTS_SYNCLENGTH >= Byte <=> end - p >= 20
  BY DEF ADTS_SYNCLENGTH, Byte
<1>2. CASE b > 0 /\ end > p
  BY <1>2 DEF Synchronization
<1>3. CASE b > 0 /\ end <= p
  BY <1>3 DEF Synchronization
<1>4. CASE b = 0 /\ end - p < 20
  BY <1>1, <1>4 DEF Synchronization
<1>5. CASE b = 0 /\ end - p >= 20
  BY <1>1, <1>5 DEF Synchronization
<1> QED BY <1>2, <1>3, <1>4, <1>5

LEMMA OutcomeIs ==
  \A r, p, h : /\ Outcome(r, p, h).result = r /\ Outcome(r, p, h).pos = p
               /\ Outcome(r, p, h).header = h
               /\ NoUnit(r, p).result = r /\ NoUnit(r, p).pos = p
BY DEF NoUnit, Outcome

LEMMA ExaminedIs ==
  ASSUME NEW q \in Nat, NEW end \in Int
  PROVE  /\ Examined(q, end).result = ReadHeader(q, end)
         /\ ReadHeader(q, end) = "Ok" =>
              Examined(q, end) = Outcome("Ok", q + Payload(HeaderAt(q)), HeaderAt(q))
         /\ ReadHeader(q, end) = "NotEnough" => Examined(q, end) = NoUnit("NotEnough", q)
         /\ ReadHeader(q, end) = "SyncError" => Examined(q, end) = NoUnit("SyncError", q + 8)
<1>1. ReadHeader(q, end) \in {"Ok", "NotEnough", "SyncError"}
  BY DEF ReadHeader
<1>2. CASE ReadHeader(q, end) = "Ok"
  BY <1>2, OutcomeIs DEF Examined
<1>3. CASE ReadHeader(q, end) = "NotEnough"
  BY <1>3, OutcomeIs DEF Examined
<1>4. CASE ReadHeader(q, end) = "SyncError"
  BY <1>4, OutcomeIs DEF Examined, Byte
<1> QED BY <1>1, <1>2, <1>3, <1>4

\* A search stops at a sync word, or passes all it looks at.
LEMMA SearchIs ==
  ASSUME stream \in Streams, NEW p \in Nat, NEW end \in Int
  PROVE  \/ Found(p, end) = {} /\ Search(p, end) = NoUnit("NotEnough", end - 8)
         \/ \E q \in Nat : /\ First(p, end, q) /\ Search(p, end) = Examined(q, end)
                           /\ SyncAt(q) /\ p <= q /\ q <= end - 16
                           /\ ReadHeader(q, end) \in {"Ok", "NotEnough"}
<1>1. CASE Found(p, end) = {}
  BY <1>1 DEF Search, Found, Byte
<1>2. CASE Found(p, end) # {}
  <2>1. PICK q \in Nat : First(p, end, q)
    BY <1>2, FoundFirst
  <2>2. Search(p, end) = Examined(q, end)
    BY <2>1, SearchStops DEF StopsAtFirst
  <2>3. SyncAt(q) /\ p <= q /\ q <= end - 16 /\ ReadHeader(q, end) # "SyncError"
    BY <2>1, FoundAt DEF First
  <2>4. ReadHeader(q, end) \in {"Ok", "NotEnough", "SyncError"}
    BY DEF ReadHeader
  <2> QED BY <2>1, <2>2, <2>3, <2>4
<1> QED BY <1>1, <1>2

-----------------------------------------------------------------------------
\* Why the decoder asks for more: the frame or the block at the reader is not there
\* yet, or a search found none, or one that is not there yet.
LEMMA NotEnoughCases ==
  ASSUME IInv, Read.result = "NotEnough"
  PROVE  \/ /\ Read.pos = pos
            /\ \/ BlocksLeft > 0 \/ fed - pos < 20
               \/ SyncAt(pos) /\ ReadHeader(pos, fed) = "NotEnough"
         \/ /\ ~syncOk /\ BlocksLeft = 0 /\ fed - pos >= 20
            /\ \/ Found(pos, fed) = {} /\ Read.pos = fed - 8
               \/ /\ Read.pos \in Nat /\ First(pos, fed, Read.pos) /\ SyncAt(Read.pos)
                  /\ pos <= Read.pos /\ Read.pos <= fed - 16
                  /\ ReadHeader(Read.pos, fed) = "NotEnough"
<1>1. /\ stream \in Streams /\ pos \in Nat /\ fed \in Nat /\ syncOk \in BOOLEAN
      /\ BlocksLeft \in Nat /\ pos \in Int /\ fed \in Int
  BY InvTypes
<1>2. Read = Synchronization(pos, fed, syncOk, BlocksLeft)
  BY ReadIs
<1>3. CASE BlocksLeft > 0 /\ fed > pos
  <2>1. Read = NextBlock(pos, fed)
    BY <1>1, <1>2, <1>3, SynchronizationIs
  <2>2. Read.pos = pos
    BY <2>1, OutcomeIs DEF NextBlock
  <2> QED BY <1>3, <2>2
<1>4. CASE (BlocksLeft > 0 /\ fed <= pos) \/ (BlocksLeft = 0 /\ fed - pos < 20)
  <2>1. Read = NoUnit("NotEnough", pos)
    BY <1>1, <1>2, <1>4, SynchronizationIs
  <2> QED BY <1>4, <2>1, OutcomeIs
<1>5. CASE BlocksLeft = 0 /\ fed - pos >= 20 /\ syncOk
  <2>1. Read = NextFrame(pos, fed)
    BY <1>1, <1>2, <1>5, SynchronizationIs
  <2>2. SyncAt(pos)
    <3> SUFFICES ASSUME ~SyncAt(pos) PROVE FALSE
      OBVIOUS
    <3>1. Read.result = "SyncError"
      BY <2>1, OutcomeIs DEF NextFrame
    <3> QED BY <3>1
  <2>3. Read = Examined(pos, fed)
    BY <2>1, <2>2 DEF NextFrame
  <2>4. ReadHeader(pos, fed) = "NotEnough"
    BY <1>1, <2>3, ExaminedIs
  <2>5. Read.pos = pos
    BY <1>1, <2>3, <2>4, ExaminedIs, OutcomeIs
  <2> QED BY <2>2, <2>4, <2>5
<1>6. CASE BlocksLeft = 0 /\ fed - pos >= 20 /\ ~syncOk
  <2>1. Read = Search(pos, fed)
    BY <1>1, <1>2, <1>6, SynchronizationIs
  <2>2. CASE Found(pos, fed) = {} /\ Search(pos, fed) = NoUnit("NotEnough", fed - 8)
    BY <1>6, <2>1, <2>2, OutcomeIs
  <2>3. CASE \E q \in Nat : /\ First(pos, fed, q) /\ Search(pos, fed) = Examined(q, fed)
                            /\ SyncAt(q) /\ pos <= q /\ q <= fed - 16
                            /\ ReadHeader(q, fed) \in {"Ok", "NotEnough"}
    <3>1. PICK q \in Nat : /\ First(pos, fed, q) /\ Search(pos, fed) = Examined(q, fed)
                           /\ SyncAt(q) /\ pos <= q /\ q <= fed - 16
      BY <2>3
    <3>2. ReadHeader(q, fed) = "NotEnough"
      BY <1>1, <2>1, <3>1, ExaminedIs
    <3>3. Read.pos = q
      BY <1>1, <2>1, <3>1, <3>2, ExaminedIs, OutcomeIs
    <3> QED BY <1>6, <3>1, <3>2, <3>3
  <2> QED BY <1>1, <2>2, <2>3, SearchIs
<1> QED BY <1>1, <1>3, <1>4, <1>5, <1>6

-----------------------------------------------------------------------------
\* The access unit that would be read next, if the whole stream were there.
LEMMA UnitUpcoming ==
  ASSUME IInv, numberOfRawDataBlocks = 0, Upcoming.result = "Ok"
  PROVE  \E q \in Nat : /\ q >= pos /\ SyncAt(q) /\ ReadHeader(q, End) = "Ok"
                        /\ Upcoming.pos = q + Payload(HeaderAt(q))
                        /\ Upcoming.header = HeaderAt(q)
                        /\ q # pos /\ SyncAt(pos) => ReadHeader(pos, End) = "SyncError"
<1>1. /\ stream \in Streams /\ pos \in Nat /\ End \in Nat /\ syncOk \in BOOLEAN
      /\ numberOfRawDataBlocks \in Nat /\ pos \in Int /\ End \in Int
  BY InvTypes
<1>2. CASE End - pos < 20
  <2>1. Upcoming = NoUnit("NotEnough", pos)
    BY <1>1, <1>2, SynchronizationIs DEF Upcoming
  <2> QED BY <2>1, OutcomeIs
<1>3. CASE End - pos >= 20 /\ syncOk
  <2>1. Upcoming = NextFrame(pos, End)
    BY <1>1, <1>3, SynchronizationIs DEF Upcoming
  <2>2. SyncAt(pos)
    <3> SUFFICES ASSUME ~SyncAt(pos) PROVE FALSE
      OBVIOUS
    <3>1. Upcoming.result = "SyncError"
      BY <2>1, OutcomeIs DEF NextFrame
    <3> QED BY <3>1
  <2>3. Upcoming = Examined(pos, End)
    BY <2>1, <2>2 DEF NextFrame
  <2>4. ReadHeader(pos, End) = "Ok"
    BY <1>1, <2>3, ExaminedIs
  <2>5. Upcoming.pos = pos + Payload(HeaderAt(pos)) /\ Upcoming.header = HeaderAt(pos)
    BY <1>1, <2>3, <2>4, ExaminedIs, OutcomeIs
  <2> QED BY <1>1, <2>2, <2>4, <2>5
<1>4. CASE End - pos >= 20 /\ ~syncOk
  <2>1. Upcoming = Search(pos, End)
    BY <1>1, <1>4, SynchronizationIs DEF Upcoming
  <2>2. Search(pos, End) # NoUnit("NotEnough", End - 8)
    BY <2>1, OutcomeIs
  <2>3. PICK q \in Nat : /\ First(pos, End, q) /\ Search(pos, End) = Examined(q, End)
                         /\ SyncAt(q) /\ pos <= q /\ q <= End - 16
    BY <1>1, <2>2, SearchIs
  <2>4. ReadHeader(q, End) = "Ok"
    BY <1>1, <2>1, <2>3, ExaminedIs
  <2>5. Upcoming.pos = q + Payload(HeaderAt(q)) /\ Upcoming.header = HeaderAt(q)
    BY <1>1, <2>1, <2>3, <2>4, ExaminedIs, OutcomeIs
  <2>6. ASSUME q # pos, SyncAt(pos)
        PROVE  ReadHeader(pos, End) = "SyncError"
    <3>1. pos \notin Found(pos, End)
      BY <1>1, <2>3, <2>6 DEF First
    <3>2. pos <= End - 16 /\ pos <= pos
      BY <1>1, <2>3
    <3> QED BY <1>1, <2>6, <3>1, <3>2, FoundAt
  <2> QED BY <1>1, <2>3, <2>4, <2>5, <2>6
<1> QED BY <1>1, <1>2, <1>3, <1>4
-----------------------------------------------------------------------------
\* After a call that asked for more between two frames, the reader is at the frame that is
\* not complete, or so near the end that none can be.
Waiting ==
  (result = "NotEnough" /\ numberOfRawDataBlocks = 0) =>
    \/ fed - pos < 20
    \/ SyncAt(pos) /\ ReadHeader(pos, fed) = "NotEnough"

LEMMA WaitingIsTrue ==
  ASSUME IInv, Waiting
  PROVE  NotEnoughIsTrue
<1> SUFFICES ASSUME result = "NotEnough", numberOfRawDataBlocks = 0, Upcoming.result = "Ok",
                    ~AtRejectedFrame
             PROVE  fed < (Upcoming.pos - Payload(Upcoming.header)) + FrameBits(Upcoming.header)
  BY DEF NotEnoughIsTrue
<1>1. PICK q \in Nat : /\ q >= pos /\ SyncAt(q) /\ ReadHeader(q, End) = "Ok"
                       /\ Upcoming.pos = q + Payload(HeaderAt(q))
                       /\ Upcoming.header = HeaderAt(q)
                       /\ q # pos /\ SyncAt(pos) => ReadHeader(pos, End) = "SyncError"
  BY UnitUpcoming
<1> DEFINE h == HeaderAt(q)
           F == FrameBits(h)
           P == Payload(h)
<1>2. F \in Nat /\ P \in Nat /\ F > P /\ P >= HeaderBits(h) /\ HeaderBits(h) >= 56 /\ HeaderBits(h) \in Nat
  <2>1. GoodHeader(h)
    BY <1>1, StreamHeadersGood, InvTypes DEF SyncAt, HeaderAt
  <2>2. /\ F \in Nat /\ P \in Nat /\ P = HeaderBits(h) + h.pce /\ h.pce \in Nat
        /\ HeaderBits(h) \in Nat /\ HeaderBits(h) >= 56
    BY <2>1, HeaderLengths
  <2>3. P < F
    BY <1>1 DEF ReadHeader, Accepted
  <2> HIDE DEF h, F, P
  <2> QED BY <2>2, <2>3
<1>3. fed \in Nat /\ pos \in Nat
  BY InvTypes
<1>4. fed < q + F
  <2>1. CASE fed - pos < 20
    <3> HIDE DEF F, P
    <3> QED BY <1>1, <1>2, <1>3, <2>1
  <2>2. CASE SyncAt(pos) /\ ReadHeader(pos, fed) = "NotEnough"
    <3>1. CASE q = pos
      <4>1. h.kind = "Valid"
        BY <1>1 DEF ReadHeader, Accepted
      <4>2. fed - q < HeaderBits(h) \/ fed - q < F
        BY <2>2, <3>1, <4>1 DEF ReadHeader
      <4> HIDE DEF h, F, P
      <4> QED BY <1>2, <1>3, <4>2
    <3>2. CASE q # pos
      <4>1. ReadHeader(pos, End) = "SyncError"
        BY <1>1, <2>2, <3>2
      <4>2. ~Accepted(HeaderAt(pos))
        BY <4>1 DEF ReadHeader
      <4> QED BY <2>2, <4>2 DEF AtRejectedFrame
    <3> QED BY <3>1, <3>2
  <2> QED BY <2>1, <2>2 DEF Waiting
<1>5. (q + P) - P = q
  <2> HIDE DEF P
  <2> QED BY <1>2
<1> QED BY <1>1, <1>4, <1>5

\* The headers of a stream stay where they are.
LEMMA SameHeaders ==
  ASSUME stream' = stream
  PROVE  \A q, e : (SyncAt(q)' <=> SyncAt(q)) /\ ReadHeader(q, e)' = ReadHeader(q, e)
<1>1. \A q : (SyncAt(q)' <=> SyncAt(q)) /\ HeaderAt(q)' = HeaderAt(q)
  BY DEF SyncAt, HeaderAt
<1>2. \A q, e : ReadHeader(q, e)' = ReadHeader(q, e)
  BY <1>1 DEF ReadHeader
<1> QED BY <1>1, <1>2

LEMMA WaitingNext ==
  ASSUME IInv, Waiting, [Next]_vars
  PROVE  Waiting'
<1>1. CASE NoAccessUnit /\ Read.result = "NotEnough"
  <2>1. /\ stream' = stream /\ fed' = fed /\ pos' = Read.pos
        /\ numberOfRawDataBlocks' = BlocksLeft
    BY <1>1 DEF NoAccessUnit
  <2>2. \/ BlocksLeft > 0 \/ fed - Read.pos < 20
        \/ SyncAt(Read.pos) /\ ReadHeader(Read.pos, fed) = "NotEnough"
    <3>1. CASE /\ Read.pos = pos
               /\ \/ BlocksLeft > 0 \/ fed - pos < 20
                  \/ SyncAt(pos) /\ ReadHeader(pos, fed) = "NotEnough"
      BY <3>1
    <3>2. CASE Read.pos = fed - 8
      <4>1. fed \in Nat
        BY InvTypes
      <4> QED BY <3>2, <4>1
    <3>3. CASE SyncAt(Read.pos) /\ ReadHeader(Read.pos, fed) = "NotEnough"
      BY <3>3
    <3>4. \/ /\ Read.pos = pos
             /\ \/ BlocksLeft > 0 \/ fed - pos < 20
                \/ SyncAt(pos) /\ ReadHeader(pos, fed) = "NotEnough"
          \/ Read.pos = fed - 8
          \/ SyncAt(Read.pos) /\ ReadHeader(Read.pos, fed) = "NotEnough"
      BY <1>1, NotEnoughCases
    <3> QED BY <3>1, <3>2, <3>3, <3>4
  <2> QED BY <2>1, <2>2, SameHeaders DEF Waiting
<1>2. CASE result' # "NotEnough"
  BY <1>2 DEF Waiting
<1>3. CASE UNCHANGED vars
  <2>1. /\ stream' = stream /\ fed' = fed /\ pos' = pos /\ result' = result
        /\ numberOfRawDataBlocks' = numberOfRawDataBlocks
    BY <1>3 DEF vars
  <2> QED BY <2>1, SameHeaders DEF Waiting
<1>4. CASE NoAccessUnit /\ Read.result # "NotEnough"
  BY <1>2, <1>4 DEF NoAccessUnit
<1>5. CASE Fill \/ Reset \/ (\E m : DecodeAccessUnit(m)) \/ (\E bits \in Misread : DecodeInterrupted(bits))
  BY <1>2, <1>5 DEF Fill, FillData, Reset, DecodeAccessUnit, DecodeInterrupted
<1> QED BY <1>1, <1>3, <1>4, <1>5 DEF Next, DecodeFrame

\* When the decoder asks for more, what is in the buffer has been decoded: it never
\* waits for bits it does not need.
THEOREM WaitsOnlyForMissing == Spec => []NotEnoughIsTrue
<1>1. Init => Waiting
  BY DEF Init, Waiting
<1>2. IInv /\ Waiting /\ [Next]_vars => Waiting'
  BY WaitingNext
<1>3. IInv /\ Waiting => NotEnoughIsTrue
  BY WaitingIsTrue
<1> QED BY <1>1, <1>2, <1>3, Invariant, PTL DEF Spec

-----------------------------------------------------------------------------
\* What is read was what came next,
LEMMA OkUpcoming ==
  ASSUME IInv, BlocksLeft = numberOfRawDataBlocks, Read.result = "Ok"
  PROVE  Upcoming = Read
<1>1. /\ stream \in Streams /\ pos \in Nat /\ fed \in Nat /\ syncOk \in BOOLEAN
      /\ numberOfRawDataBlocks \in Nat /\ pos \in Int /\ fed \in Int
      /\ End \in Int /\ fed <= End
  BY InvTypes
<1>2. Read = Synchronization(pos, fed, syncOk, numberOfRawDataBlocks)
  BY ReadIs
<1>3. CASE numberOfRawDataBlocks > 0 /\ fed > pos
  <2>1. Read = NextBlock(pos, fed) /\ Upcoming = NextBlock(pos, End)
    BY <1>1, <1>2, <1>3, SynchronizationIs DEF Upcoming
  <2>2. ~(fed - pos < FrameBits(bs) - ADTS_SYNCLENGTH)
    BY <2>1, OutcomeIs DEF NextBlock
  <2>3. FrameBits(bs) \in Int
    <3>1. GoodHeader(bs)
      BY <1>3 DEF IInv, InFrame
    <3> QED BY <3>1, HeaderLengths
  <2>4. ~(End - pos < FrameBits(bs) - ADTS_SYNCLENGTH)
    BY <1>1, <2>2, <2>3 DEF ADTS_SYNCLENGTH
  <2> QED BY <2>1, <2>2, <2>4 DEF NextBlock
<1>4. CASE (numberOfRawDataBlocks > 0 /\ fed <= pos) \/ (numberOfRawDataBlocks = 0 /\ fed - pos < 20)
  <2>1. Read = NoUnit("NotEnough", pos)
    BY <1>1, <1>2, <1>4, SynchronizationIs
  <2> QED BY <2>1, OutcomeIs
<1>5. CASE numberOfRawDataBlocks = 0 /\ fed - pos >= 20 /\ syncOk
  <2>1. Read = NextFrame(pos, fed) /\ Upcoming = NextFrame(pos, End)
    <3>1. End - pos >= 20
      BY <1>1, <1>5
    <3> QED BY <1>1, <1>2, <1>5, <3>1, SynchronizationIs DEF Upcoming
  <2>2. SyncAt(pos)
    <3> SUFFICES ASSUME ~SyncAt(pos) PROVE FALSE
      OBVIOUS
    <3>1. Read.result = "SyncError"
      BY <2>1, OutcomeIs DEF NextFrame
    <3> QED BY <3>1
  <2>3. Read = Examined(pos, fed) /\ Upcoming = Examined(pos, End)
    BY <2>1, <2>2 DEF NextFrame
  <2>4. ReadHeader(pos, fed) = "Ok"
    BY <1>1, <2>3, ExaminedIs
  <2>5. ReadHeader(pos, End) = "Ok"
    BY <1>1, <2>2, <2>4, HeaderKnown
  <2> QED BY <1>1, <2>3, <2>4, <2>5, ExaminedIs
<1>6. CASE numberOfRawDataBlocks = 0 /\ fed - pos >= 20 /\ ~syncOk
  <2>1. Read = Search(pos, fed) /\ Upcoming = Search(pos, End)
    <3>1. End - pos >= 20
      BY <1>1, <1>6
    <3> QED BY <1>1, <1>2, <1>6, <3>1, SynchronizationIs DEF Upcoming
  <2>2. Search(pos, fed) # NoUnit("NotEnough", fed - 8)
    BY <2>1, OutcomeIs
  <2>3. PICK q \in Nat : /\ First(pos, fed, q) /\ Search(pos, fed) = Examined(q, fed)
                         /\ SyncAt(q) /\ pos <= q /\ q <= fed - 16
    BY <1>1, <2>2, SearchIs
  <2>4. ReadHeader(q, fed) = "Ok"
    BY <1>1, <2>1, <2>3, ExaminedIs
  <2>5. ReadHeader(q, End) = "Ok"
    BY <1>1, <2>3, <2>4, HeaderKnown
  <2>6. Found(q, End) = Found(pos, End)
    <3>1. q % 8 = 0 /\ q <= fed - 8
      BY <1>1, <2>3 DEF SyncAt, Byte
    <3>2. \A r \in Found(pos, fed) : q <= r
      BY <2>3 DEF First
    <3> QED BY <1>1, <2>3, <3>1, <3>2, FoundLater
  <2>7. First(pos, End, q)
    <3>1. q \in Found(pos, End)
      <4>1. q <= End - 16
        BY <1>1, <2>3
      <4> QED BY <1>1, <2>3, <2>5, <4>1, FoundAt
    <3>2. Found(pos, End) \subseteq Nat /\ \A r \in Found(pos, End) : q <= r
      BY <1>1, <2>6, FoundAt
    <3> QED BY <3>1, <3>2 DEF First
  <2>8. Search(pos, End) = Examined(q, End)
    BY <2>7, SearchStops DEF StopsAtFirst
  <2> QED BY <1>1, <2>1, <2>3, <2>4, <2>5, <2>8, ExaminedIs
<1> QED BY <1>1, <1>3, <1>4, <1>5, <1>6

\* and so was a loss of sync.
LEMMA LossUpcoming ==
  ASSUME IInv, Read.result = "SyncError"
  PROVE  Upcoming.result = "SyncError"
<1>1. /\ stream \in Streams /\ pos \in Nat /\ fed \in Nat /\ syncOk \in BOOLEAN
      /\ pos \in Int /\ fed \in Int /\ End \in Int /\ fed <= End
  BY InvTypes
<1>2. syncOk /\ BlocksLeft = 0 /\ numberOfRawDataBlocks = 0
  BY ReadIs, SynchronizationCases
<1>3. Read = Synchronization(pos, fed, syncOk, 0) /\ 0 \in Nat
  BY <1>2, ReadIs
<1>4. fed - pos >= 20
  <2> SUFFICES ASSUME fed - pos < 20 PROVE FALSE
    BY <1>1
  <2>1. Read = NoUnit("NotEnough", pos)
    BY <1>1, <1>3, SynchronizationIs
  <2> QED BY <2>1, OutcomeIs
<1>5. Read = NextFrame(pos, fed)
  BY <1>1, <1>2, <1>3, <1>4, SynchronizationIs
<1>6. Upcoming = NextFrame(pos, End)
  <2>1. End - pos >= 20
    BY <1>1, <1>4
  <2> QED BY <1>1, <1>2, <1>3, <2>1, SynchronizationIs DEF Upcoming
<1>7. CASE ~SyncAt(pos)
  BY <1>6, <1>7, OutcomeIs DEF NextFrame
<1>8. CASE SyncAt(pos)
  <2>1. ReadHeader(pos, fed) = "SyncError"
    BY <1>1, <1>5, <1>8, ExaminedIs DEF NextFrame
  <2>2. ReadHeader(pos, End) = "SyncError"
    BY <1>1, <1>8, <2>1, HeaderKnown
  <2> QED BY <1>1, <1>6, <1>8, <2>2, ExaminedIs DEF NextFrame
<1> QED BY <1>7, <1>8

\* A call in vain leaves what comes next as it was.
LEMMA NotEnoughUpcoming ==
  ASSUME IInv, IInv', BlocksLeft = numberOfRawDataBlocks, NoAccessUnit, Read.result = "NotEnough"
  PROVE  /\ Upcoming'.result = Upcoming.result
         /\ Upcoming.result = "Ok" => Upcoming' = Upcoming
<1>1. /\ stream \in Streams /\ pos \in Nat /\ fed \in Nat /\ syncOk \in BOOLEAN
      /\ numberOfRawDataBlocks \in Nat /\ pos \in Int /\ fed \in Int
      /\ End \in Int /\ fed <= End /\ fed % 8 = 0
  BY InvTypes
<1>2. /\ stream' = stream /\ bs' = bs /\ pos' = Read.pos /\ syncOk' = syncOk
      /\ numberOfRawDataBlocks' = numberOfRawDataBlocks
  BY <1>1 DEF NoAccessUnit
<1> DEFINE p2 == Read.pos
<1>3. Upcoming' = Synchronization(p2, End, syncOk, numberOfRawDataBlocks)
  BY <1>2, UpcomingNext
<1> HIDE DEF p2
<1>4. CASE p2 = pos
  BY <1>3, <1>4 DEF Upcoming
<1>5. CASE p2 # pos
  <2>1. /\ ~syncOk /\ numberOfRawDataBlocks = 0 /\ fed - pos >= 20
        /\ \/ Found(pos, fed) = {} /\ p2 = fed - 8
           \/ /\ p2 \in Nat /\ First(pos, fed, p2) /\ SyncAt(p2)
              /\ pos <= p2 /\ p2 <= fed - 16
    BY <1>5, NotEnoughCases DEF p2
  <2>2. /\ p2 \in Nat /\ p2 % 8 = 0 /\ pos <= p2 /\ p2 <= fed - 8
        /\ \A r \in Found(pos, fed) : p2 <= r
    BY <1>1, <2>1 DEF First, SyncAt, Byte
  <2>3. Found(p2, End) = Found(pos, End)
    BY <1>1, <2>2, FoundLater
  <2>4. Search(p2, End) = Search(pos, End)
    BY <2>3, SearchIn
  <2>5. Upcoming = Search(pos, End)
    <3>1. End - pos >= 20
      BY <1>1, <2>1
    <3> QED BY <1>1, <2>1, <3>1, SynchronizationIs DEF Upcoming
  <2>6. p2 \in Int
    BY <2>2
  <2>7. CASE End - p2 >= 20
    <3>1. Upcoming' = Search(p2, End)
      BY <1>1, <1>3, <2>1, <2>6, <2>7, SynchronizationIs
    <3> QED BY <2>4, <2>5, <3>1
  <2>8. CASE End - p2 < 20
    <3>1. Upcoming' = NoUnit("NotEnough", p2)
      BY <1>1, <1>3, <2>1, <2>6, <2>8, SynchronizationIs
    <3>2. Search(p2, End).result = "NotEnough"
      <4>1. CASE Search(p2, End) = NoUnit("NotEnough", End - 8)
        BY <4>1, OutcomeIs
      <4>2. CASE Search(p2, End) # NoUnit("NotEnough", End - 8)
        <5>1. PICK q \in Nat : Search(p2, End) = Examined(q, End) /\ SyncAt(q) /\ p2 <= q
          BY <1>1, <2>2, <4>2, SearchIs
        <5>2. End - q < 56
          BY <1>1, <2>2, <2>8, <5>1
        <5> QED BY <1>1, <5>1, <5>2, HeaderKnown, ExaminedIs
      <4> QED BY <4>1, <4>2
    <3> QED BY <2>4, <2>5, <3>1, <3>2, OutcomeIs
  <2> QED BY <1>1, <2>6, <2>7, <2>8
<1> QED BY <1>4, <1>5

\* A frame that is read is the one that would be read if all of the stream were there:
\* no chunk, and no call in vain, makes the decoder take or miss one.
SameUpcoming ==
  /\ Upcoming'.result = Upcoming.result
  /\ Upcoming.result = "Ok" => Upcoming' = Upcoming

LEMMA ChunkStep ==
  ASSUME IInv, IInv', Next, ~(numberOfRawDataBlocks > 0 /\ ValidBits <= 0)
  PROVE  /\ result' = "Ok" => Upcoming.result = "Ok" /\ taken' = Append(taken, Upcoming.pos)
         /\ result' = "SyncError" => Upcoming.result = "SyncError"
         /\ (Fill \/ result' = "NotEnough") => SameUpcoming
<1>1. BlocksLeft = numberOfRawDataBlocks
  BY InvTypes DEF BlocksLeft
<1>2. Fill => SameUpcoming
  <2> SUFFICES ASSUME Fill PROVE SameUpcoming
    OBVIOUS
  <2>1. /\ stream' = stream /\ bs' = bs /\ pos' = pos /\ syncOk' = syncOk
        /\ numberOfRawDataBlocks' = numberOfRawDataBlocks
    BY DEF Fill, FillData
  <2>2. Upcoming' = Upcoming
    BY <2>1, UpcomingNext DEF Upcoming
  <2> QED BY <2>2 DEF SameUpcoming
<1>3. CASE Fill
  BY <1>2, <1>3 DEF Fill, FillData
<1>4. CASE NoAccessUnit
  <2>1. result' = Read.result /\ Read.result # "Ok"
    BY <1>4 DEF NoAccessUnit
  <2>2. Read.result = "NotEnough" => SameUpcoming
    BY <1>1, <1>4, NotEnoughUpcoming DEF SameUpcoming
  <2> QED BY <1>2, <2>1, <2>2, LossUpcoming
<1>5. CASE \E m : DecodeAccessUnit(m)
  <2>1. result' = "Ok" /\ Read.result = "Ok" /\ taken' = Append(taken, Read.pos)
    BY <1>5 DEF DecodeAccessUnit
  <2> QED BY <1>1, <1>2, <2>1, OkUpcoming
<1>6. CASE Reset \/ \E bits \in Misread : DecodeInterrupted(bits)
  BY <1>2, <1>6 DEF Reset, DecodeInterrupted
<1> QED BY <1>3, <1>4, <1>5, <1>6 DEF Next, DecodeFrame

\* Which access units are read does not depend on how the stream is cut into chunks, nor
\* on how often the decoder is called in vain.
THEOREM ChunksDoNotMatter == Spec => ChunkIndependent
<1> DEFINE Step == ~(numberOfRawDataBlocks > 0 /\ ValidBits <= 0) =>
                     /\ result' = "Ok" => Upcoming.result = "Ok" /\ taken' = Append(taken, Upcoming.pos)
                     /\ result' = "SyncError" => Upcoming.result = "SyncError"
                     /\ (Fill \/ result' = "NotEnough") =>
                          Upcoming'.result = Upcoming.result
                          /\ (Upcoming.result = "Ok" => Upcoming' = Upcoming)
<1>1. IInv /\ IInv' /\ [Next]_vars => [Step]_vars
  BY ChunkStep DEF SameUpcoming
<1>2. ChunkIndependent <=> [][Step]_vars
  BY PTL DEF ChunkIndependent
<1> HIDE DEF Step
<1> QED BY <1>1, <1>2, Invariant, PTL DEF Spec
=============================================================================
