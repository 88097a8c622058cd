------------------------------ MODULE BitStream ------------------------------
(***************************************************************************)
(* FDK_BITSTREAM opened as BS_READER (libFDK/include/FDK_bitstream.h): the *)
(* ring of BitBuffer behind a cache of CacheBits bits.  The reader is used *)
(* by one caller, which offers it input in chunks of its own choosing,     *)
(* reads, skips, un-reads and aligns, and may read past the last bit it    *)
(* has been given (a damaged stream does that) before input arrives again. *)
(*                                                                         *)
(* The bits of the input are numbered from 0 over the whole run, so every  *)
(* bit that is returned says where it came from.                           *)
(***************************************************************************)
EXTENDS BitBuffer

CONSTANTS
  CacheBits,   \* CACHE_BITS, 32
  HuffmanBits, \* bits CBlock_DecodeHuffmanWord reads at a time, 2
  MaxBytes,    \* bound: bytes of input in a run
  MaxChunk,    \* bound: bytes in one chunk of input
  MaxSkip,     \* bound: bits skipped at once
  MaxOverread  \* bound: bits read past the last bit fed

ASSUME StreamAssumption ==
  /\ CacheBits \in Nat \ {0} /\ CacheBits <= BufBits
  /\ HuffmanBits \in 1..CacheBits
  /\ MaxBytes \in Nat /\ MaxChunk \in Nat /\ MaxSkip \in Nat /\ MaxOverread \in Nat

\* What the memory of a new buffer holds: no bit of the input.
Blank == -1
Bit == Int

VARIABLES
  hBitBuf,      \* the FDK_BITBUF
  CacheWord,    \* the cache word, most significant bit first
  BitsInCache,  \* how many of its least significant bits are unread
  chunk,        \* the caller's input: its first bit, its length, *bytesValid
  anchor,       \* an alignment anchor the caller took, and where it was then
  mark,         \* position of the reader at the last call that stored input
  out           \* the bits the last call returned, if it was a read

streamVars == <<hBitBuf, CacheWord, BitsInCache>>
vars == <<hBitBuf, CacheWord, BitsInCache, chunk, anchor, mark, out>>

\* Bits of the input fed so far, and the position of the next read.
Fed == chunk.first + (chunk.size - chunk.bytesValid) * ByteBits
ReadPos == Fed - (hBitBuf.ValidBits + BitsInCache)

NoWord == [k \in 1..CacheBits |-> Blank]

\* The n least significant bits of the cache word.
LowBits(n) == [k \in 1..n |-> CacheWord[CacheBits - n + k]]

-----------------------------------------------------------------------------
\* The record and cache that FDKsyncCache leaves behind.
Synced == PushBack(hBitBuf, BitsInCache, READER)
CacheEmpty == CacheWord' = NoWord /\ BitsInCache' = 0

\* Only a read leaves something for FDKpushBackCache to give back.
NotARead == out' = << >>

Init ==
  /\ hBitBuf = InitBitBuffer([i \in 0..(BufBits - 1) |-> Blank], 0)
  /\ CacheWord = NoWord /\ BitsInCache = 0
  /\ chunk = [first |-> 0, size |-> 0, bytesValid |-> 0]
  /\ anchor = [bits |-> 0, pos |-> 0]
  /\ mark = 0 /\ out = << >>

\* The caller has the next chunk of input, once the last one is used up.
OfferChunk ==
  /\ chunk.bytesValid = 0
  /\ \E n \in 1..MaxChunk :
       /\ Fed + n * ByteBits <= MaxBytes * ByteBits
       /\ chunk' = [first |-> Fed, size |-> n, bytesValid |-> n]
  /\ NotARead /\ UNCHANGED <<hBitBuf, CacheWord, BitsInCache, anchor, mark>>

\* Faulty: input is stored without giving the prefetched bits back first.
FeedBufferNoSync ==
  /\ chunk.bytesValid > 0
  /\ LET n == FeedBytes(hBitBuf, chunk.bytesValid)
         from == chunk.first + (chunk.size - chunk.bytesValid) * ByteBits
         src == [k \in 1..(n * ByteBits) |-> from + k - 1]
     IN  /\ hBitBuf' = Feed(hBitBuf, src, n)
         /\ chunk' = [chunk EXCEPT !.bytesValid = @ - n]
  /\ CacheEmpty
  /\ mark' = ReadPos
  /\ NotARead /\ UNCHANGED anchor

\* FDKfeedBuffer: sync, then store what fits from &inputBuffer[size - bytesValid].
FeedBuffer ==
  /\ chunk.bytesValid > 0
  /\ LET n == FeedBytes(Synced, chunk.bytesValid)
         from == chunk.first + (chunk.size - chunk.bytesValid) * ByteBits
         src == [k \in 1..(n * ByteBits) |-> from + k - 1]
     IN  /\ hBitBuf' = Feed(Synced, src, n)
         /\ chunk' = [chunk EXCEPT !.bytesValid = @ - n]
  /\ CacheEmpty
  /\ mark' = ReadPos
  /\ NotARead /\ UNCHANGED anchor

\* Faulty: the bits that were read are not taken off the refilled cache.
ReadBitsUncounted(n) ==
  LET missing == n - BitsInCache
      word == BitsAt(hBitBuf, CacheBits)
  IN  /\ hBitBuf.ValidBits + BitsInCache - n >= -MaxOverread
      /\ missing > 0
      /\ hBitBuf' = Advance(hBitBuf, CacheBits)
      /\ CacheWord' = word
      /\ BitsInCache' = BitsInCache + CacheBits
      /\ out' = LowBits(BitsInCache) \o [k \in 1..missing |-> word[k]]
      /\ UNCHANGED <<chunk, anchor, mark>>

\* FDKreadBits, and FDKreadBit and FDKread2Bits, which are the same for 1 and 2.
ReadBits(n) ==
  LET missing == n - BitsInCache
      word == BitsAt(hBitBuf, CacheBits)
  IN  /\ hBitBuf.ValidBits + BitsInCache - n >= -MaxOverread
      /\ \/ /\ missing > 0
            /\ hBitBuf' = Advance(hBitBuf, CacheBits)
            /\ CacheWord' = word
            /\ BitsInCache' = BitsInCache + CacheBits - n
            /\ out' = LowBits(BitsInCache) \o [k \in 1..missing |-> word[k]]
         \/ /\ missing <= 0
            /\ BitsInCache' = BitsInCache - n
            /\ out' = [k \in 1..n |-> CacheWord[CacheBits - BitsInCache + k]]
            /\ UNCHANGED <<hBitBuf, CacheWord>>
      /\ UNCHANGED <<chunk, anchor, mark>>

\* FDKpushBackCache, as CBlock_DecodeHuffmanWord calls it: one bit of the pair
\* that was just read is given back.
PushBackCache ==
  /\ Len(out) = HuffmanBits
  /\ BitsInCache' = BitsInCache + 1
  /\ UNCHANGED <<hBitBuf, CacheWord, chunk, anchor, mark>>
  /\ NotARead

\* Faulty: bits are given back to the cache whenever they fit, as if the word
\* always were the last one prefetched.
PushBackInCache(n) ==
  /\ ReadPos - n >= mark
  /\ BitsInCache + n <= CacheBits
  /\ BitsInCache' = BitsInCache + n
  /\ NotARead /\ UNCHANGED <<hBitBuf, CacheWord, chunk, anchor, mark>>

\* FDKpushBack.  Callers go back over bits they have read since input was
\* last stored.
PushBackBits(n) ==
  /\ ReadPos - n >= mark
  /\ hBitBuf' = IF BitsInCache + n < CacheBits
                THEN PushBack(hBitBuf, BitsInCache + n, READER)
                ELSE PushBack(Synced, n, READER)
  /\ CacheEmpty
  /\ NotARead /\ UNCHANGED <<chunk, anchor, mark>>

\* FDKpushFor.
PushForBits(n) ==
  /\ hBitBuf.ValidBits + BitsInCache - n >= -MaxOverread
  /\ \/ /\ BitsInCache > n
        /\ BitsInCache' = BitsInCache - n
        /\ UNCHANGED <<hBitBuf, CacheWord>>
     \/ /\ BitsInCache <= n
        /\ hBitBuf' = PushForward(Synced, n, READER)
        /\ CacheEmpty
  /\ NotARead /\ UNCHANGED <<chunk, anchor, mark>>

\* FDKgetValidBits: the caller keeps the answer as an alignment anchor.
GetValidBits ==
  /\ hBitBuf' = Synced
  /\ CacheEmpty
  /\ anchor' = [bits |-> Synced.ValidBits, pos |-> ReadPos]
  /\ NotARead /\ UNCHANGED <<chunk, mark>>

\* Faulty: the distance from the anchor is taken before the cache is synced.
ByteAlignNoSync ==
  /\ LET gap == (ByteBits - ((anchor.bits - hBitBuf.ValidBits) % ByteBits)) % ByteBits
     IN  /\ Synced.ValidBits - gap >= -MaxOverread
         /\ hBitBuf' = PushForward(Synced, gap, READER)
  /\ CacheEmpty
  /\ NotARead /\ UNCHANGED <<chunk, anchor, mark>>

\* FDKbyteAlign with that anchor.
ByteAlign ==
  /\ LET gap == (ByteBits - ((anchor.bits - Synced.ValidBits) % ByteBits)) % ByteBits
     IN  /\ Synced.ValidBits - gap >= -MaxOverread
         /\ hBitBuf' = PushForward(Synced, gap, READER)
  /\ CacheEmpty
  /\ NotARead /\ UNCHANGED <<chunk, anchor, mark>>

\* FDKresetBitbuffer: what was fed and not read is gone.
ResetBuffer ==
  /\ hBitBuf' = ResetBitBuffer(hBitBuf)
  /\ CacheEmpty
  /\ mark' = Fed
  /\ anchor' = [bits |-> 0, pos |-> Fed]
  /\ NotARead /\ UNCHANGED chunk

Next ==
  \/ OfferChunk \/ FeedBuffer \/ GetValidBits \/ ByteAlign \/ ResetBuffer
  \/ PushBackCache
  \/ \E n \in 0..CacheBits : ReadBits(n)
  \/ \E n \in 0..BufBits : PushBackBits(n)
  \/ \E n \in 0..MaxSkip : PushForBits(n)

Spec == Init /\ [][Next]_vars

-----------------------------------------------------------------------------
TypeOK ==
  /\ hBitBuf \in BitBuf(Bit)
  /\ CacheWord \in [1..CacheBits -> Bit] /\ BitsInCache \in 0..CacheBits
  /\ chunk \in [first : Nat, size : Nat, bytesValid : Nat]
  /\ chunk.bytesValid <= chunk.size
  /\ anchor \in [bits : Int, pos : Int]
  /\ mark \in Int /\ out \in Seq(Bit)

\* Everything from the position the reader had when input was last stored is
\* still in the ring where a read or a rewind will look for it: FDK_Feed never
\* overwrites a bit that is unread, prefetched into the cache, or may be
\* un-read, whatever its UINT arithmetic makes of a negative ValidBits.
RewindableBitsKept ==
  \A p \in mark..(Fed - 1) :
    hBitBuf.Buffer[RingBit(hBitBuf.BitNdx - BitsInCache + (p - ReadPos))] = p

\* The unread part of the cache word is what the ring holds just before the
\* bit cursor, except for bits prefetched before they were fed.
CacheCoherent ==
  \A k \in 1..BitsInCache :
    ReadPos + k - 1 < Fed => LowBits(BitsInCache)[k] = ReadPos + k - 1

\* The three counters that say where unread input ends agree: BitNdx and
\* ValidBits, which reads move, and ReadOffset, which FDK_Feed moves.
CursorsAgree ==
  RingBit(hBitBuf.BitNdx + hBitBuf.ValidBits) = hBitBuf.ReadOffset * ByteBits

\* The reader is a first-in first-out sequence of bits: no interleaving of
\* feeding, reading, un-reading, skipping, aligning and resetting repeats,
\* loses or reorders a bit that a read returns.
Fifo == INSTANCE BitFifo WITH Capacity <- BufBits, fed <- Fed, rd <- ReadPos, out <- out
ImplementsFifo == Fifo!Spec

\* FDKbyteAlign goes forward, by less than a byte, to a multiple of a byte from
\* the anchor, also when input was stored after the anchor was taken.
AlignsToAnchor ==
  [][ByteAlign => /\ (ReadPos' - anchor.pos) % ByteBits = 0
                  /\ ReadPos' - ReadPos \in 0..(ByteBits - 1)]_vars
=============================================================================
