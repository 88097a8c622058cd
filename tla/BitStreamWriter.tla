-------------------------- MODULE BitStreamWriter --------------------------
(***************************************************************************)
(* FDK_BITSTREAM opened as BS_WRITER (libFDK/include/FDK_bitstream.h): the *)
(* ring of BitBuffer behind a cache whose low BitsInCache bits are not     *)
(* stored yet.  The encoders write fields, take a whole element back to    *)
(* write it again (LATM, SBR), align to a byte, patch a length or a CRC    *)
(* through a second writer over the same memory (ADTS, LATM) and fetch     *)
(* whole bytes.                                                            *)
(*                                                                         *)
(* Every bit that is written has a number of its own; log is what the      *)
(* encoder means the stream to be, fetched what has come out of it.        *)
(***************************************************************************)
EXTENDS BitBuffer

CONSTANTS
  CacheBits,   \* CACHE_BITS, 32
  Fields,      \* the fields patched afterwards: <<first bit in the frame, length>>
  MaxBits      \* bound: bits written in a run

ASSUME WriterAssumption ==
  /\ CacheBits \in Nat \ {0} /\ CacheBits <= BufBits /\ MaxBits \in Nat
  /\ Fields \subseteq (0..(BufBits - 1)) \X (1..CacheBits)

\* Bits nobody wrote, and the zeros of an alignment.
Blank == -1
Zero == -2

VARIABLES
  hBitBuf, CacheWord, BitsInCache,   \* the FDK_BITSTREAM
  log,       \* history: the bits written and not taken back, oldest first
  written,   \* how many numbers were given to bits
  anchor,    \* an alignment anchor
  fetched    \* history: the bits FDKfetchBuffer has returned

vars == <<hBitBuf, CacheWord, BitsInCache, log, written, anchor, fetched>>

\* The bits in the cache word, of which CacheWord holds no more than it needs.
Cached(word, n) == SubSeq(word, Len(word) - n + 1, Len(word))
Serials(n) == [k \in 1..n |-> written + k - 1]

\* FDKsyncCache.
Synced == FDKput(hBitBuf, Cached(CacheWord, BitsInCache))
CacheEmpty == CacheWord' = << >> /\ BitsInCache' = 0

Init ==
  /\ hBitBuf = InitBitBuffer([i \in 0..(BufBits - 1) |-> Blank], 0)
  /\ CacheWord = << >> /\ BitsInCache = 0
  /\ log = << >> /\ written = 0
  /\ anchor = 0 /\ fetched = << >>

\* Writers give the ring as much as it holds.
Waiting == Len(log) - Len(fetched)
Fits(n) == Waiting + n <= BufBits

\* FDKwriteBits: a full cache word is stored, the rest of value stays cached.
WriteBits(n) ==
  LET missing == CacheBits - BitsInCache
      value == Serials(n)
      word == Cached(CacheWord, BitsInCache) \o value
  IN  /\ Fits(n) /\ written + n <= MaxBits
      /\ \/ /\ BitsInCache + n < CacheBits
            /\ CacheWord' = word /\ BitsInCache' = BitsInCache + n
            /\ UNCHANGED hBitBuf
         \/ /\ BitsInCache + n >= CacheBits
            /\ hBitBuf' = FDKput(hBitBuf, SubSeq(word, 1, CacheBits))
            /\ CacheWord' = value /\ BitsInCache' = n - missing
      /\ log' = log \o value /\ written' = written + n
      /\ UNCHANGED <<anchor, fetched>>

\* FDKpushBack: the last n bits are taken back.
PushBackBits(n) ==
  /\ n <= Waiting
  /\ hBitBuf' = PushBack(Synced, n, WRITER)
  /\ CacheEmpty
  /\ log' = SubSeq(log, 1, Len(log) - n)
  /\ UNCHANGED <<written, anchor, fetched>>

\* FDKgetValidBits: what was written so far, as a mark or as an anchor.
GetValidBits ==
  /\ hBitBuf' = Synced
  /\ CacheEmpty
  /\ anchor' = Synced.ValidBits
  /\ UNCHANGED <<log, written, fetched>>

\* FDKbyteAlign: zeros up to a multiple of a byte from the anchor.
ByteAlign ==
  LET gap == (ByteBits - ((Synced.ValidBits - anchor) % ByteBits)) % ByteBits
      zeros == [k \in 1..gap |-> Zero]
  IN  /\ Fits(gap)
      /\ hBitBuf' = FDKput(Synced, zeros)
      /\ CacheEmpty
      /\ log' = log \o zeros
      /\ UNCHANGED <<written, anchor, fetched>>

\* What a patch makes of the stream.
Overwritten(at, n) ==
  LET first == Len(fetched) + at + 1
  IN  [k \in 1..Len(log) |-> IF k \in first..(first + n - 1) THEN written + k - first ELSE log[k]]

\* Faulty: the patch is placed behind what the first writer has stored.
PatchAppended(at, n) ==
  /\ hBitBuf.WriteOffset = 0 /\ at + n <= hBitBuf.ValidBits
  /\ written + n <= MaxBits
  /\ hBitBuf' = [hBitBuf EXCEPT !.Buffer = Overwrite(@, hBitBuf.ValidBits, Serials(n), n)]
  /\ log' = Overwritten(at, n)
  /\ written' = written + n
  /\ UNCHANGED <<CacheWord, BitsInCache, anchor, fetched>>

\* A second writer over the same memory: FDKinitBitStream with no valid bits,
\* FDKpushFor to the field, FDKwriteBits and FDKsyncCache.  Its users patch
\* fields the first writer has stored (they asked it for its valid bits), of a
\* frame that begins at the first byte of the memory.
Patch(at, n) ==
  LET second == PushForward(InitBitBuffer(hBitBuf.Buffer, 0), at, WRITER)
  IN  /\ hBitBuf.WriteOffset = 0 /\ at + n <= hBitBuf.ValidBits
      /\ written + n <= MaxBits
      /\ hBitBuf' = [hBitBuf EXCEPT !.Buffer = FDKput(second, Serials(n)).Buffer]
      /\ log' = Overwritten(at, n)
      /\ written' = written + n
      /\ UNCHANGED <<CacheWord, BitsInCache, anchor, fetched>>

\* FDKfetchBuffer: at most `wanted' whole bytes leave the ring.
FetchBuffer(wanted) ==
  LET n == FetchBytes(Synced, wanted)
  IN  /\ fetched' = fetched \o FetchedBits(Synced, n)
      /\ hBitBuf' = Fetch(Synced, n)
      /\ CacheEmpty
      /\ anchor' = anchor - n * ByteBits
      /\ UNCHANGED <<log, written>>

Next ==
  \/ \E n \in 0..CacheBits : WriteBits(n)
  \/ \E n \in 1..BufBits : PushBackBits(n)
  \/ \E f \in Fields : Patch(f[1], f[2])
  \/ \E wanted \in 1..BufSize : FetchBuffer(wanted)
  \/ GetValidBits \/ ByteAlign

Spec == Init /\ [][Next]_vars

-----------------------------------------------------------------------------
\* What was fetched, what is in the ring and what is in the cache are, in this order,
\* what the encoder wrote: nothing taken back, aligned or patched is lost, repeated
\* or misplaced, and whole bytes come out oldest first.
StoredInOrder ==
  log = fetched \o [k \in 1..hBitBuf.ValidBits |->
                      hBitBuf.Buffer[RingBit(hBitBuf.WriteOffset * ByteBits + k - 1)]]
                \o Cached(CacheWord, BitsInCache)
=============================================================================
