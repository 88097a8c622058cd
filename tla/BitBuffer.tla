------------------------------ MODULE BitBuffer ------------------------------
(***************************************************************************)
(* FDK_BITBUF and the functions of libFDK/src/FDK_bitbuffer.cpp: a ring of *)
(* BufSize bytes with a byte cursor for bytes fed (ReadOffset), a byte     *)
(* cursor for bytes fetched (WriteOffset), a bit cursor for bits read or   *)
(* written (BitNdx), and the count ValidBits.  A function of the code that *)
(* takes a handle is here an operator from a record to a record.           *)
(*                                                                         *)
(* A bit is a member of an arbitrary set: the users of this module put     *)
(* serial numbers in it, which tell every bit of a stream from every       *)
(* other.  ValidBits is the INT view of the code's UINT: FDK_get32,        *)
(* FDK_pushBack, FDK_pushForward and FDK_Feed all compute on that view.    *)
(***************************************************************************)
EXTENDS Integers, Sequences

CONSTANTS
  ByteBits,     \* bits in a byte (8)
  BufSize,      \* bytes in the ring, a power of two in the code
  UintRange     \* 2^32, the number of values of an UINT

BufBits == BufSize * ByteBits

ASSUME BufferAssumption ==
  /\ ByteBits \in Nat \ {0}
  /\ BufSize \in Nat \ {0}
  /\ UintRange \in Nat /\ 2 * BufBits < UintRange

Smaller(a, b) == IF a <= b THEN a ELSE b
Larger(a, b)  == IF a >= b THEN a ELSE b

\* The code's "& (bufBits - 1)" and "& (bufSize - 1)".
RingBit(i)  == i % BufBits
RingByte(i) == i % BufSize

\* The UINT a value of the INT view is stored as.
AsUint(v) == v % UintRange

BitBuf(Bit) ==
  [ValidBits : Int, ReadOffset : 0..(BufSize - 1), WriteOffset : 0..(BufSize - 1),
   BitNdx : 0..(BufBits - 1), Buffer : [0..(BufBits - 1) -> Bit]]

\* FDK_InitBitBuffer: the buffer is the caller's memory.
InitBitBuffer(memory, validBits) ==
  [ValidBits |-> validBits, ReadOffset |-> 0, WriteOffset |-> 0, BitNdx |-> 0,
   Buffer |-> memory]

\* Faulty: the cursor of bytes fed survives a reset.
ResetBitBufferPartly(b) == [b EXCEPT !.ValidBits = 0, !.WriteOffset = 0, !.BitNdx = 0]

ResetBitBuffer(b) ==
  [b EXCEPT !.ValidBits = 0, !.ReadOffset = 0, !.WriteOffset = 0, !.BitNdx = 0]

\* The n bits from the bit cursor on, across the end of the ring.
BitsAt(b, n) == [k \in 1..n |-> b.Buffer[RingBit(b.BitNdx + k - 1)]]

\* FDK_get and FDK_get32 move the cursor alike; BitsAt is what they return.
Advance(b, n) ==
  [b EXCEPT !.BitNdx = RingBit(@ + n), !.ValidBits = @ - n]

\* The ring with the n bits src[1..n] stored from bit index `at' on.
Overwrite(buffer, at, src, n) ==
  [i \in 0..(BufBits - 1) |->
     LET k == RingBit(i - at) IN IF k < n THEN src[k + 1] ELSE buffer[i]]

FDKput(b, bits) ==
  [b EXCEPT !.Buffer = Overwrite(@, b.BitNdx, bits, Len(bits)),
            !.BitNdx = RingBit(@ + Len(bits)),
            !.ValidBits = @ + Len(bits)]

\* config is BS_READER (0) or BS_WRITER (1): what is unread grows when a
\* reader moves back, what is written shrinks when a writer does.
READER == 0
WRITER == 1

PushBack(b, n, config) ==
  [b EXCEPT !.ValidBits = IF config = READER THEN @ + n ELSE @ - n,
            !.BitNdx = RingBit(@ - n)]

PushForward(b, n, config) ==
  [b EXCEPT !.ValidBits = IF config = READER THEN @ - n ELSE @ + n,
            !.BitNdx = RingBit(@ + n)]

FreeBits(b) == BufBits - b.ValidBits

\* Faulty: what is unread is not taken off the room in the ring.
FeedBytesUnbounded(b, bytesValid) == Smaller(BufSize, bytesValid)

\* How many of the bytesValid bytes on offer FDK_Feed takes.
FeedBytes(b, bytesValid) ==
  Smaller(Smaller(BufBits, Larger(0, FreeBits(b))) \div ByteBits, bytesValid)

\* FDK_Feed: n bytes, whose bits are src, are stored at ReadOffset; the loop
\* that splits the copy at the end of the ring stores each byte once, so the
\* two pieces are one Overwrite.
Feed(b, src, n) ==
  [b EXCEPT !.Buffer = Overwrite(@, b.ReadOffset * ByteBits, src, n * ByteBits),
            !.ReadOffset = RingByte(@ + n),
            !.ValidBits = @ + n * ByteBits]

\* FDK_Fetch: the bound and the loop work on the UINT, so a negative count
\* is a very large one.
FetchBytes(b, wanted) == Smaller(AsUint(b.ValidBits) \div ByteBits, wanted)

FetchedBits(b, n) ==
  [k \in 1..(n * ByteBits) |-> b.Buffer[RingBit(b.WriteOffset * ByteBits + k - 1)]]

Fetch(b, n) ==
  [b EXCEPT !.WriteOffset = RingByte(@ + n), !.ValidBits = @ - n * ByteBits]
=============================================================================
