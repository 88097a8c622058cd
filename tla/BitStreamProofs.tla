--------------------------- MODULE BitStreamProofs ---------------------------
(***************************************************************************)
(* Proofs about BitStream for every ring size, byte size and cache size:   *)
(* the invariants its run checks, the alignment to an anchor, and that the *)
(* reader implements BitFifo.                                              *)
(***************************************************************************)
EXTENDS BitStream, SequenceTheorems, TLAPS

-----------------------------------------------------------------------------
\* The strengthening.  RewindableBitsKept speaks of the place a read looks at;
\* the same bits named by the place FDK_Feed stored them are disturbed by fewer
\* actions.
KeptInRing ==
  \A p \in mark..(Fed - 1) :
    hBitBuf.Buffer[RingBit(hBitBuf.ReadOffset * ByteBits + (p - Fed))] = p

\* A rewind goes no further back than the ring remembers.
MarkInReach == Fed - BufBits <= mark /\ mark <= ReadPos

\* The last bit a read returned can be given back to the cache.
LastBitCached ==
  Len(out) >= 1 =>
    /\ BitsInCache < CacheBits
    /\ mark <= ReadPos - 1
    /\ ReadPos - 1 < Fed => CacheWord[CacheBits - BitsInCache] = ReadPos - 1

IInv ==
  /\ TypeOK
  /\ CursorsAgree
  /\ KeptInRing
  /\ MarkInReach
  /\ CacheCoherent
  /\ LastBitCached

\* An anchor and where it was taken, put together, are a byte of the input.
AnchorOnByte == (anchor.pos + anchor.bits - Fed) % ByteBits = 0

\* How far FDKbyteAlign goes.
AlignGap == (ByteBits - ((anchor.bits - Synced.ValidBits) % ByteBits)) % ByteBits

\* The bit cursor moved by d, in the reader's count.
Moved(b, d) == [b EXCEPT !.BitNdx = RingBit(@ + d), !.ValidBits = @ - d]

-----------------------------------------------------------------------------
\* Positions reduced modulo the size of a ring, for a size that is not known: what the
\* masks "& (bufBits - 1)" of FDK_bitbuffer.cpp are used for.

\* Quotient and remainder.
LEMMA DivMod ==
  ASSUME NEW N \in Nat \ {0}, NEW a \in Int
  PROVE  /\ a % N \in 0..(N - 1)
         /\ a \div N \in Int
         /\ a = N * (a \div N) + (a % N)
  OBVIOUS

\* Two numbers less than N apart that differ by a multiple of N are equal.
LEMMA CloseMultiples ==
  ASSUME NEW N \in Nat \ {0}, NEW q \in Int, NEW a \in Int, NEW b \in Int,
         a = b + N * q, -N < a - b, a - b < N
  PROVE  a = b
  BY SMTT(30)

\* Positions a multiple of N apart have the same place in the ring.
LEMMA ModPeriod ==
  ASSUME NEW N \in Nat \ {0}, NEW a \in Int, NEW b \in Int, NEW q \in Int,
         a = b + N * q
  PROVE  a % N = b % N
<1> DEFINE k == q + (b \div N) - (a \div N)
<1>1. /\ a % N \in 0..(N - 1) /\ a \div N \in Int /\ a = N * (a \div N) + (a % N)
      /\ b % N \in 0..(N - 1) /\ b \div N \in Int /\ b = N * (b \div N) + (b % N)
  BY DivMod
<1>2. k \in Int
  BY <1>1
<1>3. N * k = N * q + N * (b \div N) - N * (a \div N)
  BY <1>1
<1>4. a % N = (b % N) + N * k
  <2> DEFINE x == N * (a \div N)
             y == N * (b \div N)
             z == N * q
  <2>1. x \in Int /\ y \in Int /\ z \in Int
    BY <1>1
  <2>2. a = x + (a % N) /\ b = y + (b % N) /\ a = b + z /\ N * k = z + y - x
    BY <1>1, <1>3
  <2> HIDE DEF x, y, z, k
  <2> QED BY <1>1, <2>1, <2>2
<1> HIDE DEF k
<1> QED BY <1>1, <1>2, <1>4, CloseMultiples

\* Reducing before or after adding makes no difference.
LEMMA ModAdd ==
  ASSUME NEW N \in Nat \ {0}, NEW a \in Int, NEW k \in Int
  PROVE  ((a % N) + k) % N = (a + k) % N
<1>1. a % N \in Int /\ a \div N \in Int /\ a = N * (a \div N) + (a % N)
  BY DivMod
<1>2. a + k = ((a % N) + k) + N * (a \div N)
  BY <1>1
<1>3. (a % N) + k \in Int /\ a + k \in Int
  BY <1>1
<1> QED BY <1>1, <1>2, <1>3, ModPeriod

\* A position inside the ring is its own place.
LEMMA ModSmall ==
  ASSUME NEW N \in Nat \ {0}, NEW a \in 0..(N - 1)
  PROVE  a % N = a
<1>1. a % N \in 0..(N - 1) /\ a \div N \in Int /\ a = (a % N) + N * (a \div N)
  BY DivMod
<1> QED BY <1>1, CloseMultiples

\* One turn back.
LEMMA ModNegative ==
  ASSUME NEW N \in Nat \ {0}, NEW a \in (-N)..(-1)
  PROVE  a % N = a + N
<1> DEFINE b == a + N
           q == -1
<1>1. b \in 0..(N - 1) /\ a = b + N * q /\ a \in Int /\ b \in Int /\ q \in Int
  OBVIOUS
<1> HIDE DEF b, q
<1>2. a % N = b % N
  BY <1>1, ModPeriod
<1>3. a % N = b
  BY <1>1, <1>2, ModSmall
<1> QED BY <1>3 DEF b

\* A byte cursor in a ring of S bytes is a bit cursor in a ring of S * B bits.
LEMMA ModScale ==
  ASSUME NEW S \in Nat \ {0}, NEW B \in Nat \ {0}, NEW i \in Int
  PROVE  (i % S) * B = (i * B) % (S * B)
<1> DEFINE r == i % S
           q == i \div S
<1>1. r \in 0..(S - 1) /\ q \in Int /\ i = S * q + r
  BY DivMod
<1> HIDE DEF r, q
<1>2. S * B \in Nat \ {0}
  BY SMTT(30)
<1>3. r * B \in 0..(S * B - 1)
  <2>1. r * B \in Nat /\ (S - 1 - r) * B \in Nat
    BY <1>1, SMTT(30)
  <2>2. (S - 1 - r) * B = S * B - B - r * B
    BY <1>1, SMTT(30)
  <2> QED BY <1>2, <2>1, <2>2
<1>4. i * B = r * B + (S * B) * q
  BY <1>1, SMTT(30)
<1>5. (i * B) % (S * B) = (r * B) % (S * B)
  <2> DEFINE x == i * B
             y == r * B
             M == S * B
  <2>1. x \in Int /\ y \in Int /\ M \in Nat \ {0} /\ x = y + M * q
    BY <1>1, <1>2, <1>3, <1>4
  <2> HIDE DEF x, y, M
  <2>2. x % M = y % M
    BY <1>1, <2>1, ModPeriod
  <2> QED BY <2>2 DEF x, y, M
<1>6. (r * B) % (S * B) = r * B
  BY <1>2, <1>3, ModSmall
<1> QED BY <1>5, <1>6 DEF r

\* As many whole bytes as fit in x bits take at most x bits.
LEMMA WholeBytes ==
  ASSUME NEW B \in Nat \ {0}, NEW x \in Nat
  PROVE  /\ x \div B \in Nat
         /\ \A n \in Nat : n <= x \div B => n * B <= x
<1>a. x \div B \in Nat
  BY SMTT(30)
<1>b. SUFFICES ASSUME NEW n \in Nat, n <= x \div B PROVE n * B <= x
  BY <1>a
<1> DEFINE d == x \div B
<1>1. d \in Int /\ x % B \in 0..(B - 1) /\ x = B * d + (x % B)
  BY DivMod
<1> HIDE DEF d
<1>2. n <= d
  BY <1>b DEF d
<1>3. (d - n) * B >= 0 /\ (d - n) * B = B * d - n * B
  BY <1>1, <1>2, SMTT(30)
<1> QED BY <1>1, <1>3

-----------------------------------------------------------------------------
LEMMA Sizes ==
  /\ ByteBits \in Nat \ {0} /\ BufSize \in Nat \ {0}
  /\ BufBits \in Nat \ {0} /\ BufBits = BufSize * ByteBits
  /\ CacheBits \in Nat \ {0} /\ CacheBits <= BufBits
  /\ HuffmanBits \in Nat \ {0} /\ HuffmanBits <= CacheBits
<1>1. ByteBits \in Nat \ {0} /\ BufSize \in Nat \ {0} /\ BufBits = BufSize * ByteBits
  BY BufferAssumption DEF BufBits
<1>2. BufSize * ByteBits \in Nat \ {0}
  BY <1>1, SMTT(30)
<1> QED BY <1>1, <1>2, StreamAssumption

\* RingBit reduces: the lemmas above, for this ring.
LEMMA RingBitFacts ==
  ASSUME NEW a \in Int
  PROVE  /\ RingBit(a) \in 0..(BufBits - 1)
         /\ \A k \in Int : RingBit(RingBit(a) + k) = RingBit(a + k)
         /\ a \in 0..(BufBits - 1) => RingBit(a) = a
         /\ a \in (-BufBits)..(-1) => RingBit(a) = a + BufBits
<1>1. BufBits \in Nat \ {0}
  BY Sizes
<1>2. RingBit(a) \in 0..(BufBits - 1)
  BY <1>1, DivMod DEF RingBit
<1>3. ASSUME NEW k \in Int PROVE RingBit(RingBit(a) + k) = RingBit(a + k)
  BY <1>1, ModAdd DEF RingBit
<1>4. a \in 0..(BufBits - 1) => RingBit(a) = a
  BY <1>1, ModSmall DEF RingBit
<1>5. a \in (-BufBits)..(-1) => RingBit(a) = a + BufBits
  BY <1>1, ModNegative DEF RingBit
<1> QED BY <1>2, <1>3, <1>4, <1>5

LEMMA RingTwice == \A a, k \in Int : RingBit(RingBit(a) + k) = RingBit(a + k)
  BY RingBitFacts

\* The fields of the state, one by one.
LEMMA Fields ==
  ASSUME TypeOK
  PROVE  /\ hBitBuf.ValidBits \in Int /\ hBitBuf.BitNdx \in 0..(BufBits - 1)
         /\ hBitBuf.ReadOffset \in 0..(BufSize - 1)
         /\ hBitBuf.Buffer \in [0..(BufBits - 1) -> Int]
         /\ hBitBuf.ReadOffset * ByteBits \in Int
         /\ chunk.first \in Nat /\ chunk.size \in Nat /\ chunk.bytesValid \in Nat
         /\ BitsInCache \in Nat /\ BitsInCache <= CacheBits
         /\ Fed \in Nat /\ ReadPos \in Int /\ mark \in Int
         /\ ReadPos = Fed - hBitBuf.ValidBits - BitsInCache
<1>1. /\ hBitBuf.ValidBits \in Int /\ hBitBuf.BitNdx \in 0..(BufBits - 1)
      /\ hBitBuf.ReadOffset \in 0..(BufSize - 1)
      /\ hBitBuf.Buffer \in [0..(BufBits - 1) -> Int]
      /\ chunk.first \in Nat /\ chunk.size \in Nat /\ chunk.bytesValid \in Nat
      /\ chunk.bytesValid <= chunk.size
      /\ BitsInCache \in Nat /\ BitsInCache <= CacheBits /\ mark \in Int
  BY Sizes DEF TypeOK, BitBuf, Bit
<1>2. hBitBuf.ReadOffset * ByteBits \in Int
  BY <1>1, Sizes
<1>3. Fed \in Nat
  <2>1. chunk.size - chunk.bytesValid \in Nat
    BY <1>1
  <2>2. (chunk.size - chunk.bytesValid) * ByteBits \in Nat
    BY <2>1, Sizes, SMTT(30)
  <2> QED BY <1>1, <2>2 DEF Fed
<1>4. ReadPos \in Int /\ ReadPos = Fed - hBitBuf.ValidBits - BitsInCache
  BY <1>1, <1>3 DEF ReadPos
<1> QED BY <1>1, <1>2, <1>3, <1>4

\* Where a read looks for bit p is where FDK_Feed put it.
LEMMA SamePlace ==
  ASSUME TypeOK, CursorsAgree, NEW p \in Int
  PROVE  RingBit(hBitBuf.BitNdx - BitsInCache + (p - ReadPos))
           = RingBit(hBitBuf.ReadOffset * ByteBits + (p - Fed))
<1> DEFINE ndx == hBitBuf.BitNdx
           valid == hBitBuf.ValidBits
           f == Fed
<1>1. ndx \in Int /\ valid \in Int /\ f \in Int /\ BitsInCache \in Int
      /\ ReadPos = f - valid - BitsInCache
  BY Fields
<1>2. RingBit(ndx + valid) = hBitBuf.ReadOffset * ByteBits
  BY DEF CursorsAgree
<1> HIDE DEF ndx, valid, f
<1>3. ndx - BitsInCache + (p - ReadPos) = (ndx + valid) + (p - f)
  BY <1>1
<1>4. RingBit(RingBit(ndx + valid) + (p - f)) = RingBit((ndx + valid) + (p - f))
  BY <1>1, RingBitFacts
<1> QED BY <1>2, <1>3, <1>4 DEF ndx, f

LEMMA KeptIsRewindable ==
  ASSUME IInv
  PROVE  RewindableBitsKept
<1> SUFFICES ASSUME NEW p \in mark..(Fed - 1)
             PROVE  hBitBuf.Buffer[RingBit(hBitBuf.BitNdx - BitsInCache + (p - ReadPos))] = p
  BY DEF RewindableBitsKept
<1>1. p \in Int
  BY Fields DEF IInv
<1> QED BY <1>1, SamePlace DEF IInv, KeptInRing

-----------------------------------------------------------------------------
\* Moving the bit cursor keeps it in step with ReadOffset.
LEMMA MovedFacts ==
  ASSUME TypeOK, NEW d \in Int
  PROVE  /\ Moved(hBitBuf, d) \in BitBuf(Bit)
         /\ Moved(hBitBuf, d).ValidBits = hBitBuf.ValidBits - d
         /\ Moved(hBitBuf, d).BitNdx = RingBit(hBitBuf.BitNdx + d)
         /\ Moved(hBitBuf, d).ReadOffset = hBitBuf.ReadOffset
         /\ Moved(hBitBuf, d).Buffer = hBitBuf.Buffer
         /\ CursorsAgree =>
              RingBit(Moved(hBitBuf, d).BitNdx + Moved(hBitBuf, d).ValidBits)
                = hBitBuf.ReadOffset * ByteBits
<1> DEFINE ndx == hBitBuf.BitNdx
           valid == hBitBuf.ValidBits
<1>1. ndx \in Int /\ valid \in Int
  BY Fields
<1>2. RingBit(ndx + d) \in 0..(BufBits - 1)
  <2>1. ndx + d \in Int
    BY <1>1
  <2> HIDE DEF ndx
  <2> QED BY <2>1, RingBitFacts
<1>3. RingBit(RingBit(ndx + d) + (valid - d)) = RingBit(ndx + valid)
  <2> HIDE DEF ndx, valid
  <2>1. ndx + d \in Int /\ valid - d \in Int /\ (ndx + d) + (valid - d) = ndx + valid
    BY <1>1
  <2> QED BY <2>1, RingTwice
<1>4. /\ Moved(hBitBuf, d).ValidBits = valid - d
      /\ Moved(hBitBuf, d).BitNdx = RingBit(ndx + d)
      /\ Moved(hBitBuf, d).ReadOffset = hBitBuf.ReadOffset
      /\ Moved(hBitBuf, d).Buffer = hBitBuf.Buffer
  BY DEF Moved, TypeOK, BitBuf
<1>5. Moved(hBitBuf, d) \in BitBuf(Bit)
  <2> DEFINE M == [0..(BufBits - 1) -> Bit]
             R == 0..(BufSize - 1)
             I == 0..(BufBits - 1)
  <2>1. hBitBuf \in [ValidBits : Int, ReadOffset : R, WriteOffset : R, BitNdx : I, Buffer : M]
    BY DEF TypeOK, BitBuf
  <2>2. valid - d \in Int /\ RingBit(ndx + d) \in I
    BY <1>1, <1>2
  <2> HIDE DEF M, R, I
  <2>3. Moved(hBitBuf, d) \in [ValidBits : Int, ReadOffset : R, WriteOffset : R, BitNdx : I, Buffer : M]
    BY <2>1, <2>2 DEF Moved
  <2> QED BY <2>3 DEF M, R, I, BitBuf
<1> QED BY <1>3, <1>4, <1>5 DEF CursorsAgree

\* FDK_pushBack, FDK_pushForward and FDK_get32 are all moves of the cursor.
LEMMA PushesMove ==
  ASSUME TypeOK, NEW n \in Nat
  PROVE  /\ PushBack(hBitBuf, n, READER) = Moved(hBitBuf, -n)
         /\ PushForward(hBitBuf, n, READER) = Moved(hBitBuf, n)
         /\ Advance(hBitBuf, n) = Moved(hBitBuf, n)
<1>1. hBitBuf.BitNdx - n = hBitBuf.BitNdx + (-n) /\ hBitBuf.ValidBits - (-n) = hBitBuf.ValidBits + n
  BY Fields
<1> QED BY <1>1 DEF PushBack, PushForward, Advance, Moved, READER

\* FDKsyncCache, and what follows it.
LEMMA SyncedMoves ==
  ASSUME TypeOK
  PROVE  /\ Synced = Moved(hBitBuf, -BitsInCache)
         /\ Synced.ValidBits = hBitBuf.ValidBits + BitsInCache
         /\ \A n \in Nat :
              /\ PushBack(Synced, n, READER) = Moved(hBitBuf, -BitsInCache - n)
              /\ PushForward(Synced, n, READER) = Moved(hBitBuf, n - BitsInCache)
<1> DEFINE ndx == hBitBuf.BitNdx
           valid == hBitBuf.ValidBits
           c == BitsInCache
<1>1. ndx \in Int /\ valid \in Int /\ c \in Nat
  BY Fields
<1>2. Synced = Moved(hBitBuf, -c)
  BY <1>1, PushesMove DEF Synced
<1>3. valid - (-c) = valid + c
  BY <1>1
<1>4. Synced.ValidBits = valid + c
  BY <1>1, <1>2, <1>3, MovedFacts
<1>5. ASSUME NEW n \in Nat
      PROVE  /\ PushBack(Synced, n, READER) = Moved(hBitBuf, -c - n)
             /\ PushForward(Synced, n, READER) = Moved(hBitBuf, n - c)
  <2>1. Synced.BitNdx = RingBit(ndx + (-c)) /\ Synced.ValidBits = valid + c
    BY <1>1, <1>2, <1>4, MovedFacts
  <2>2. /\ RingBit(RingBit(ndx + (-c)) - n) = RingBit(ndx + (-c - n))
        /\ RingBit(RingBit(ndx + (-c)) + n) = RingBit(ndx + (n - c))
    <3> HIDE DEF ndx, c
    <3> DEFINE m == -n
               a == ndx + (-c)
    <3>1. m \in Int /\ n \in Int /\ a \in Int /\ a + m = ndx + (-c - n) /\ a + n = ndx + (n - c)
      BY <1>1
    <3>2. RingBit(a) \in Int /\ RingBit(a) - n = RingBit(a) + m
      <4>1. RingBit(a) \in Int
        <5> HIDE DEF a
        <5> QED BY <3>1, RingBitFacts
      <4> QED BY <4>1
    <3> HIDE DEF m, a
    <3>3. RingBit(RingBit(a) + m) = RingBit(a + m) /\ RingBit(RingBit(a) + n) = RingBit(a + n)
      BY <3>1, RingTwice
    <3> QED BY <3>1, <3>2, <3>3 DEF a
  <2>3. (valid + c) + n = valid - (-c - n) /\ (valid + c) - n = valid - (n - c)
    BY <1>1
  <2>4. PushBack(Synced, n, READER)
          = [Synced EXCEPT !.ValidBits = valid - (-c - n), !.BitNdx = RingBit(ndx + (-c - n))]
    BY <2>1, <2>2, <2>3 DEF PushBack, READER
  <2>5. PushForward(Synced, n, READER)
          = [Synced EXCEPT !.ValidBits = valid - (n - c), !.BitNdx = RingBit(ndx + (n - c))]
    BY <2>1, <2>2, <2>3 DEF PushForward, READER
  <2> QED BY <1>2, <2>4, <2>5 DEF Moved
<1> QED BY <1>2, <1>4, <1>5

\* Every call that ends with an empty cache and a cursor moved no further back
\* than the mark keeps the invariant.
LEMMA MoveKeepsInv ==
  ASSUME IInv, NEW d \in Int, hBitBuf' = Moved(hBitBuf, d), CacheEmpty,
         chunk' = chunk, mark' = mark, NotARead,
         anchor' \in [bits : Int, pos : Int],
         mark <= ReadPos + BitsInCache + d
  PROVE  IInv' /\ ReadPos' = ReadPos + BitsInCache + d /\ Fed' = Fed
<1> USE DEF IInv
<1>1. /\ Fed' = Fed /\ hBitBuf'.ReadOffset = hBitBuf.ReadOffset
      /\ hBitBuf'.Buffer = hBitBuf.Buffer /\ hBitBuf' \in BitBuf(Bit)
      /\ hBitBuf'.ValidBits = hBitBuf.ValidBits - d
      /\ BitsInCache' = 0 /\ CacheWord' = NoWord /\ out' = << >>
  BY MovedFacts DEF Fed, CacheEmpty, NotARead
<1>2. ReadPos' = ReadPos + BitsInCache + d
  BY <1>1, Fields DEF ReadPos
<1>3. TypeOK'
  <2>1. NoWord \in [1..CacheBits -> Bit]
    BY DEF NoWord, Bit, Blank
  <2>2. 0 \in 0..CacheBits /\ << >> \in Seq(Bit)
    BY Sizes
  <2> QED BY <1>1, <2>1, <2>2 DEF TypeOK
<1>4. CursorsAgree'
  BY <1>1, MovedFacts DEF CursorsAgree
<1>5. KeptInRing'
  BY <1>1 DEF KeptInRing
<1>6. MarkInReach'
  BY <1>1, <1>2 DEF MarkInReach
<1>7. CacheCoherent'
  BY <1>1 DEF CacheCoherent
<1>8. LastBitCached'
  BY <1>1 DEF LastBitCached
<1> QED BY <1>1, <1>2, <1>3, <1>4, <1>5, <1>6, <1>7, <1>8

-----------------------------------------------------------------------------
LEMMA PushBackKeepsInv ==
  ASSUME IInv, NEW n \in 0..BufBits, PushBackBits(n)
  PROVE  IInv' /\ Fed' = Fed
<1>1. TypeOK /\ n \in Nat /\ BitsInCache \in Nat /\ ReadPos \in Int /\ mark \in Int
  BY Fields, Sizes DEF IInv
<1>2. hBitBuf' = Moved(hBitBuf, -BitsInCache - n)
  <2>1. CASE BitsInCache + n < CacheBits
    <3>1. hBitBuf' = PushBack(hBitBuf, BitsInCache + n, READER)
      BY <2>1 DEF PushBackBits
    <3>2. BitsInCache + n \in Nat /\ -(BitsInCache + n) = -BitsInCache - n
      BY <1>1
    <3> QED BY <1>1, <3>1, <3>2, PushesMove
  <2>2. CASE ~(BitsInCache + n < CacheBits)
    BY <1>1, <2>2, SyncedMoves DEF PushBackBits
  <2> QED BY <2>1, <2>2
<1>3. -BitsInCache - n \in Int /\ mark <= ReadPos + BitsInCache + (-BitsInCache - n)
  BY <1>1 DEF PushBackBits
<1>4. anchor' \in [bits : Int, pos : Int]
  BY DEF PushBackBits, IInv, TypeOK
<1> QED BY <1>2, <1>3, <1>4, MoveKeepsInv DEF PushBackBits

LEMMA PushForKeepsInv ==
  ASSUME IInv, NEW n \in Nat, PushForBits(n)
  PROVE  IInv' /\ Fed' = Fed
<1>1. TypeOK /\ BitsInCache \in Nat /\ BitsInCache <= CacheBits /\ ReadPos \in Int /\ mark \in Int
      /\ Fed \in Int /\ CacheBits \in Nat
  BY Fields, Sizes DEF IInv
<1>2. mark <= ReadPos
  BY DEF IInv, MarkInReach
<1>3. anchor' \in [bits : Int, pos : Int]
  BY DEF PushForBits, IInv, TypeOK
<1>4. CASE BitsInCache <= n /\ hBitBuf' = PushForward(Synced, n, READER) /\ CacheEmpty
  <2>1. hBitBuf' = Moved(hBitBuf, n - BitsInCache)
    BY <1>1, <1>4, SyncedMoves
  <2>2. n - BitsInCache \in Int /\ mark <= ReadPos + BitsInCache + (n - BitsInCache)
    BY <1>1, <1>2
  <2> QED BY <1>3, <1>4, <2>1, <2>2, MoveKeepsInv DEF PushForBits
<1>5. CASE BitsInCache > n /\ BitsInCache' = BitsInCache - n /\ UNCHANGED <<hBitBuf, CacheWord>>
  <2>1. chunk' = chunk /\ mark' = mark /\ out' = << >> /\ hBitBuf' = hBitBuf /\ CacheWord' = CacheWord
    BY <1>5 DEF PushForBits, NotARead
  <2>2. Fed' = Fed /\ ReadPos' = ReadPos + n
    <3>1. Fed' = Fed
      BY <2>1 DEF Fed
    <3> QED BY <1>1, <1>5, <2>1, <3>1, Fields DEF ReadPos
  <2>3. TypeOK'
    <3>1. BitsInCache' \in 0..CacheBits /\ << >> \in Seq(Bit)
      BY <1>1, <1>5
    <3> QED BY <1>3, <2>1, <3>1 DEF IInv, TypeOK
  <2>4. CursorsAgree' /\ KeptInRing' /\ LastBitCached'
    BY <2>1, <2>2 DEF IInv, CursorsAgree, KeptInRing, LastBitCached
  <2>5. MarkInReach'
    BY <1>1, <2>1, <2>2 DEF IInv, MarkInReach
  <2>6. CacheCoherent'
    <3> SUFFICES ASSUME NEW k \in 1..BitsInCache', (ReadPos + n) + k - 1 < Fed
                 PROVE  CacheWord[CacheBits - BitsInCache' + k] = (ReadPos + n) + k - 1
      BY <2>1, <2>2 DEF CacheCoherent, LowBits
    <3>1. n + k \in 1..BitsInCache /\ ReadPos + (n + k) - 1 < Fed
      BY <1>1, <1>5
    <3>2. CacheWord[CacheBits - BitsInCache + (n + k)] = ReadPos + (n + k) - 1
      BY <3>1 DEF IInv, CacheCoherent, LowBits
    <3>3. /\ CacheBits - BitsInCache + (n + k) = CacheBits - BitsInCache' + k
          /\ ReadPos + (n + k) - 1 = (ReadPos + n) + k - 1
      BY <1>1, <1>5
    <3> QED BY <3>2, <3>3
  <2> QED BY <2>2, <2>3, <2>4, <2>5, <2>6 DEF IInv
<1> QED BY <1>4, <1>5 DEF PushForBits

LEMMA GetValidBitsKeepsInv ==
  ASSUME IInv, GetValidBits
  PROVE  IInv' /\ Fed' = Fed
<1>1. TypeOK /\ BitsInCache \in Nat /\ ReadPos \in Int /\ mark \in Int
      /\ hBitBuf.ValidBits \in Int
  BY Fields DEF IInv
<1>2. hBitBuf' = Moved(hBitBuf, -BitsInCache) /\ Synced.ValidBits \in Int
  BY <1>1, SyncedMoves DEF GetValidBits
<1>3. -BitsInCache \in Int /\ mark <= ReadPos + BitsInCache + (-BitsInCache)
  BY <1>1 DEF IInv, MarkInReach
<1>4. anchor' \in [bits : Int, pos : Int]
  BY <1>1, <1>2 DEF GetValidBits
<1> QED BY <1>2, <1>3, <1>4, MoveKeepsInv DEF GetValidBits

LEMMA ByteAlignKeepsInv ==
  ASSUME IInv, ByteAlign
  PROVE  IInv' /\ Fed' = Fed /\ ReadPos' = ReadPos + AlignGap
<1> DEFINE gap == (ByteBits - ((anchor.bits - Synced.ValidBits) % ByteBits)) % ByteBits
<1>1. TypeOK /\ BitsInCache \in Nat /\ ReadPos \in Int /\ mark \in Int
      /\ hBitBuf.ValidBits \in Int
  BY Fields DEF IInv
<1>2. gap \in Nat
  <2>1. anchor.bits - Synced.ValidBits \in Int
    <3>1. Synced.ValidBits \in Int
      BY <1>1, SyncedMoves
    <3>2. anchor.bits \in Int
      BY <1>1 DEF TypeOK
    <3> QED BY <3>1, <3>2
  <2> DEFINE a == anchor.bits - Synced.ValidBits
             b == ByteBits - (a % ByteBits)
  <2>2. b \in Int
    <3> HIDE DEF a
    <3>1. a % ByteBits \in Int
      BY <2>1, Sizes, DivMod DEF a
    <3> QED BY <3>1, Sizes
  <2>3. gap = b % ByteBits
    OBVIOUS
  <2> HIDE DEF b, gap
  <2> QED BY <2>2, <2>3, Sizes, DivMod
<1>3. hBitBuf' = PushForward(Synced, gap, READER)
  BY DEF ByteAlign
<1> HIDE DEF gap
<1>4. hBitBuf' = Moved(hBitBuf, gap - BitsInCache)
  BY <1>1, <1>2, <1>3, SyncedMoves
<1>5. gap - BitsInCache \in Int /\ mark <= ReadPos + BitsInCache + (gap - BitsInCache)
  BY <1>1, <1>2 DEF IInv, MarkInReach
<1>6. anchor' \in [bits : Int, pos : Int]
  BY DEF ByteAlign, IInv, TypeOK
<1>7. IInv' /\ Fed' = Fed /\ ReadPos' = ReadPos + BitsInCache + (gap - BitsInCache)
  BY <1>4, <1>5, <1>6, MoveKeepsInv DEF ByteAlign
<1>8. ReadPos + BitsInCache + (gap - BitsInCache) = ReadPos + gap
  BY <1>1, <1>2
<1> QED BY <1>7, <1>8 DEF gap, AlignGap

-----------------------------------------------------------------------------
\* What FDK_get32 puts in the cache: bit k of the word is the bit k - 1 places
\* after those already cached.
LEMMA WordRead ==
  ASSUME IInv, NEW k \in 1..CacheBits, ReadPos + BitsInCache + k - 1 < Fed
  PROVE  BitsAt(hBitBuf, CacheBits)[k] = ReadPos + BitsInCache + k - 1
<1> DEFINE p == ReadPos + BitsInCache + k - 1
<1>1. TypeOK /\ ReadPos \in Int /\ BitsInCache \in Nat /\ mark \in Int /\ Fed \in Int
      /\ hBitBuf.BitNdx \in Int
  BY Fields DEF IInv
<1>2. p \in mark..(Fed - 1)
  BY <1>1 DEF IInv, MarkInReach
<1>3. hBitBuf.BitNdx - BitsInCache + (p - ReadPos) = hBitBuf.BitNdx + k - 1
  BY <1>1
<1>4. hBitBuf.Buffer[RingBit(hBitBuf.BitNdx - BitsInCache + (p - ReadPos))] = p
  BY <1>2, KeptIsRewindable DEF RewindableBitsKept
<1> QED BY <1>3, <1>4 DEF BitsAt

LEMMA WordTyped ==
  ASSUME IInv
  PROVE  BitsAt(hBitBuf, CacheBits) \in [1..CacheBits -> Bit]
<1> SUFFICES ASSUME NEW k \in 1..CacheBits
             PROVE  hBitBuf.Buffer[RingBit(hBitBuf.BitNdx + k - 1)] \in Bit
  BY DEF BitsAt
<1> DEFINE a == hBitBuf.BitNdx + k - 1
<1>1. TypeOK /\ a \in Int /\ hBitBuf.Buffer \in [0..(BufBits - 1) -> Int]
  BY Fields DEF IInv
<1> HIDE DEF a
<1>2. RingBit(a) \in 0..(BufBits - 1)
  BY <1>1, RingBitFacts
<1> QED BY <1>1, <1>2 DEF a, Bit

LEMMA ReadKeepsInv ==
  ASSUME IInv, NEW n \in 0..CacheBits, ReadBits(n)
  PROVE  /\ IInv' /\ Fed' = Fed /\ ReadPos' = ReadPos + n
         /\ out' \in Seq(Bit) /\ Len(out') = n
         /\ \A k \in 1..n : ReadPos + k - 1 < Fed => out'[k] = ReadPos + k - 1
<1> DEFINE c == BitsInCache
           missing == n - c
           word == BitsAt(hBitBuf, CacheBits)
<1>1. /\ TypeOK /\ c \in Nat /\ c <= CacheBits /\ ReadPos \in Int /\ mark \in Int
      /\ Fed \in Int /\ CacheBits \in Nat /\ n \in Nat /\ n <= CacheBits
      /\ hBitBuf.ValidBits \in Int
  BY Fields, Sizes DEF IInv
<1>2. mark <= ReadPos
  BY DEF IInv, MarkInReach
<1>3. /\ chunk' = chunk /\ mark' = mark /\ anchor' = anchor /\ Fed' = Fed
  BY DEF ReadBits, Fed
<1>4. \A k \in 1..c : ReadPos + k - 1 < Fed => CacheWord[CacheBits - c + k] = ReadPos + k - 1
  BY DEF IInv, CacheCoherent, LowBits
<1>5. CASE /\ missing > 0
           /\ hBitBuf' = Advance(hBitBuf, CacheBits)
           /\ CacheWord' = word
           /\ BitsInCache' = BitsInCache + CacheBits - n
           /\ out' = LowBits(BitsInCache) \o [k \in 1..missing |-> word[k]]
  <2>1. /\ hBitBuf' = Moved(hBitBuf, CacheBits)
        /\ hBitBuf'.ReadOffset = hBitBuf.ReadOffset /\ hBitBuf'.Buffer = hBitBuf.Buffer
        /\ hBitBuf' \in BitBuf(Bit) /\ hBitBuf'.ValidBits = hBitBuf.ValidBits - CacheBits
        /\ CursorsAgree'
    <3>1. hBitBuf' = Moved(hBitBuf, CacheBits) /\ CacheBits \in Int
      BY <1>1, <1>5, PushesMove
    <3>2. CursorsAgree
      BY DEF IInv
    <3> QED BY <1>1, <3>1, <3>2, MovedFacts DEF CursorsAgree
  <2>2. ReadPos' = ReadPos + n
    BY <1>1, <1>3, <1>5, <2>1, Fields DEF ReadPos
  <2>3. word \in [1..CacheBits -> Bit] /\ CacheWord \in [1..CacheBits -> Bit]
    BY WordTyped DEF IInv, TypeOK
  <2>4. /\ LowBits(c) \in Seq(Bit) /\ Len(LowBits(c)) = c
        /\ [k \in 1..missing |-> word[k]] \in Seq(Bit)
        /\ Len([k \in 1..missing |-> word[k]]) = missing
    BY <1>1, <1>5, <2>3 DEF LowBits
  <2>5. /\ out' \in Seq(Bit) /\ Len(out') = n
        /\ \A k \in 1..n : out'[k] = IF k <= c THEN CacheWord[CacheBits - c + k] ELSE word[k - c]
    <3>1. /\ out' \in Seq(Bit) /\ Len(out') = c + missing
          /\ \A k \in 1..(c + missing) :
               out'[k] = IF k <= c THEN LowBits(c)[k] ELSE [j \in 1..missing |-> word[j]][k - c]
      <4> DEFINE u == LowBits(c)
                 v == [j \in 1..missing |-> word[j]]
      <4>1. u \in Seq(Bit) /\ v \in Seq(Bit) /\ out' = u \o v /\ Len(u) = c /\ Len(v) = missing
        BY <1>5, <2>4
      <4> HIDE DEF u, v, missing
      <4>2. /\ u \o v \in Seq(Bit) /\ Len(u \o v) = Len(u) + Len(v)
            /\ \A k \in 1..(Len(u) + Len(v)) :
                 (u \o v)[k] = IF k <= Len(u) THEN u[k] ELSE v[k - Len(u)]
        BY <4>1, ConcatProperties
      <4> QED BY <4>1, <4>2 DEF u, v
    <3>2. c + missing = n
      BY <1>1
    <3>3. \A k \in 1..n : k > c => [j \in 1..missing |-> word[j]][k - c] = word[k - c]
      BY <1>1
    <3>4. \A k \in 1..n : k <= c => LowBits(c)[k] = CacheWord[CacheBits - c + k]
      BY <1>1 DEF LowBits
    <3>5. \A k \in 1..n : out'[k] = IF k <= c THEN CacheWord[CacheBits - c + k] ELSE word[k - c]
      <4> SUFFICES ASSUME NEW k \in 1..n
                   PROVE  out'[k] = IF k <= c THEN CacheWord[CacheBits - c + k] ELSE word[k - c]
        OBVIOUS
      <4>1. out'[k] = IF k <= c THEN LowBits(c)[k] ELSE [j \in 1..missing |-> word[j]][k - c]
        BY <3>1, <3>2
      <4>2. CASE k <= c
        BY <3>4, <4>1, <4>2
      <4>3. CASE ~(k <= c)
        <5>1. k > c
          BY <1>1, <4>3
        <5> QED BY <3>3, <4>1, <4>3, <5>1
      <4> QED BY <4>2, <4>3
    <3> QED BY <3>1, <3>2, <3>5
  <2>6. \A k \in 1..n : ReadPos + k - 1 < Fed => out'[k] = ReadPos + k - 1
    <3> SUFFICES ASSUME NEW k \in 1..n, ReadPos + k - 1 < Fed
                 PROVE  out'[k] = ReadPos + k - 1
      OBVIOUS
    <3>1. CASE k <= c
      BY <1>1, <1>4, <2>5, <3>1
    <3>2. CASE k > c
      <4>1. k - c \in 1..CacheBits /\ ReadPos + c + (k - c) - 1 = ReadPos + k - 1
        BY <1>1, <3>2
      <4>2. word[k - c] = ReadPos + k - 1
        BY <4>1, WordRead
      <4> QED BY <1>1, <2>5, <3>2, <4>2
    <3> QED BY <1>1, <3>1, <3>2
  <2>7. BitsInCache' = CacheBits - missing /\ BitsInCache' \in Nat /\ BitsInCache' < CacheBits
    BY <1>1, <1>5
  <2>8. TypeOK'
    BY <1>3, <1>5, <2>1, <2>3, <2>5, <2>7, <1>1 DEF TypeOK, IInv
  <2>9. KeptInRing' /\ MarkInReach'
    BY <1>1, <1>2, <1>3, <2>1, <2>2 DEF IInv, KeptInRing, MarkInReach
  <2>10. CacheCoherent'
    <3> SUFFICES ASSUME NEW k \in 1..BitsInCache', (ReadPos + n) + k - 1 < Fed
                 PROVE  word[CacheBits - BitsInCache' + k] = (ReadPos + n) + k - 1
      BY <1>3, <1>5, <2>2 DEF CacheCoherent, LowBits
    <3>1. /\ CacheBits - BitsInCache' + k = missing + k /\ missing + k \in 1..CacheBits
          /\ ReadPos + c + (missing + k) - 1 = (ReadPos + n) + k - 1
      BY <1>1, <1>5, <2>7
    <3> HIDE DEF missing
    <3> QED BY <3>1, WordRead
  <2>11. LastBitCached'
    <3>1. CacheBits - BitsInCache' = missing /\ missing \in 1..CacheBits
          /\ ReadPos + c + missing - 1 = (ReadPos + n) - 1 /\ n >= 1
      BY <1>1, <1>5, <2>7
    <3>2. mark <= (ReadPos + n) - 1
      BY <1>1, <1>2, <3>1
    <3> HIDE DEF missing
    <3>3. (ReadPos + n) - 1 < Fed => word[missing] = (ReadPos + n) - 1
      BY <3>1, WordRead
    <3> QED BY <1>3, <1>5, <2>2, <2>7, <3>1, <3>2, <3>3 DEF LastBitCached
  <2> QED BY <1>3, <2>1, <2>2, <2>5, <2>6, <2>8, <2>9, <2>10, <2>11 DEF IInv
<1>6. CASE /\ missing <= 0
           /\ BitsInCache' = BitsInCache - n
           /\ out' = [k \in 1..n |-> CacheWord[CacheBits - BitsInCache + k]]
           /\ UNCHANGED <<hBitBuf, CacheWord>>
  <2>1. ReadPos' = ReadPos + n
    BY <1>1, <1>3, <1>6, Fields DEF ReadPos
  <2>2. CacheWord \in [1..CacheBits -> Bit] /\ CacheWord' = CacheWord /\ hBitBuf' = hBitBuf
    BY <1>6 DEF IInv, TypeOK
  <2>3. \A k \in 1..n : k \in 1..c /\ CacheBits - c + k \in 1..CacheBits
    BY <1>1, <1>6
  <2>4. out' \in Seq(Bit) /\ Len(out') = n
    BY <1>1, <1>6, <2>2, <2>3
  <2>5. \A k \in 1..n : ReadPos + k - 1 < Fed => out'[k] = ReadPos + k - 1
    BY <1>4, <1>6, <2>3
  <2>6. BitsInCache' \in Nat /\ BitsInCache' <= CacheBits
    BY <1>1, <1>6
  <2>7. TypeOK' /\ CursorsAgree'
    BY <1>1, <1>3, <2>2, <2>4, <2>6 DEF IInv, TypeOK, CursorsAgree
  <2>8. KeptInRing' /\ MarkInReach'
    BY <1>1, <1>2, <1>3, <2>1, <2>2 DEF IInv, KeptInRing, MarkInReach
  <2>9. CacheCoherent'
    <3> SUFFICES ASSUME NEW k \in 1..BitsInCache', (ReadPos + n) + k - 1 < Fed
                 PROVE  CacheWord[CacheBits - BitsInCache' + k] = (ReadPos + n) + k - 1
      BY <1>3, <2>1, <2>2 DEF CacheCoherent, LowBits
    <3>1. /\ n + k \in 1..c /\ ReadPos + (n + k) - 1 = (ReadPos + n) + k - 1
          /\ CacheBits - c + (n + k) = CacheBits - BitsInCache' + k
      BY <1>1, <1>6
    <3>2. CacheWord[CacheBits - c + (n + k)] = ReadPos + (n + k) - 1
      BY <1>4, <3>1
    <3> QED BY <3>1, <3>2
  <2>10. LastBitCached'
    <3> SUFFICES ASSUME n >= 1
                 PROVE  /\ BitsInCache' < CacheBits /\ mark <= (ReadPos + n) - 1
                        /\ (ReadPos + n) - 1 < Fed =>
                             CacheWord[CacheBits - BitsInCache'] = (ReadPos + n) - 1
      BY <1>3, <2>1, <2>2, <2>4 DEF LastBitCached
    <3>1. n \in 1..c /\ CacheBits - c + n = CacheBits - BitsInCache'
      BY <1>1, <1>6
    <3> QED BY <1>1, <1>2, <1>4, <1>6, <3>1
  <2> QED BY <1>3, <2>1, <2>4, <2>5, <2>7, <2>8, <2>9, <2>10 DEF IInv
<1> QED BY <1>5, <1>6 DEF ReadBits

LEMMA PushBackCacheKeepsInv ==
  ASSUME IInv, PushBackCache
  PROVE  IInv' /\ Fed' = Fed
<1> DEFINE c == BitsInCache
<1>1. /\ TypeOK /\ c \in Nat /\ ReadPos \in Int /\ mark \in Int
      /\ Fed \in Int /\ CacheBits \in Nat
  BY Fields, Sizes DEF IInv
<1>2. /\ c < CacheBits /\ mark <= ReadPos - 1
      /\ ReadPos - 1 < Fed => CacheWord[CacheBits - c] = ReadPos - 1
  BY Sizes DEF IInv, LastBitCached, PushBackCache
<1>3. /\ chunk' = chunk /\ mark' = mark /\ anchor' = anchor /\ hBitBuf' = hBitBuf
      /\ CacheWord' = CacheWord /\ BitsInCache' = c + 1 /\ out' = << >>
  BY DEF PushBackCache, NotARead
<1>4. Fed' = Fed
  BY <1>3 DEF Fed
<1>5. ReadPos' = ReadPos - 1
  <2>1. hBitBuf.ValidBits \in Int
    BY <1>1, Fields
  <2>2. ReadPos = Fed - (hBitBuf.ValidBits + c) /\ ReadPos' = Fed - (hBitBuf.ValidBits + (c + 1))
    BY <1>3, <1>4 DEF ReadPos
  <2> QED BY <1>1, <2>1, <2>2
<1>6. TypeOK'
  <2>1. c + 1 \in 0..CacheBits /\ << >> \in Seq(Bit)
    BY <1>1, <1>2
  <2> QED BY <1>3, <2>1 DEF IInv, TypeOK
<1>7. CursorsAgree' /\ KeptInRing' /\ MarkInReach' /\ LastBitCached'
  BY <1>1, <1>2, <1>3, <1>4, <1>5 DEF IInv, CursorsAgree, KeptInRing, MarkInReach, LastBitCached
<1>8. CacheCoherent'
  <2> SUFFICES ASSUME NEW k \in 1..(c + 1), (ReadPos - 1) + k - 1 < Fed
               PROVE  CacheWord[CacheBits - (c + 1) + k] = (ReadPos - 1) + k - 1
    BY <1>3, <1>4, <1>5 DEF CacheCoherent, LowBits
  <2>1. CASE k = 1
    BY <1>1, <1>2, <2>1
  <2>2. CASE k # 1
    <3>1. /\ k - 1 \in 1..c /\ ReadPos + (k - 1) - 1 = (ReadPos - 1) + k - 1
          /\ CacheBits - c + (k - 1) = CacheBits - (c + 1) + k
      BY <1>1, <2>2
    <3> QED BY <3>1 DEF IInv, CacheCoherent, LowBits
  <2> QED BY <2>1, <2>2
<1> QED BY <1>4, <1>6, <1>7, <1>8 DEF IInv

-----------------------------------------------------------------------------
\* What FDK_Feed takes fits in the free part of the ring, also when more bits
\* have been read than were fed.
LEMMA FeedBytesFit ==
  ASSUME IInv, NEW offered \in Nat
  PROVE  /\ FeedBytes(Synced, offered) \in Nat
         /\ FeedBytes(Synced, offered) <= offered
         /\ FeedBytes(Synced, offered) * ByteBits <= BufBits
         /\ FeedBytes(Synced, offered) * ByteBits <= BufBits - Synced.ValidBits
<1> DEFINE v == Synced.ValidBits
           x == Smaller(BufBits, Larger(0, FreeBits(Synced)))
           n == FeedBytes(Synced, offered)
<1>1. v \in Int /\ v = Fed - ReadPos /\ v <= BufBits
  <2>1. v = hBitBuf.ValidBits + BitsInCache
    BY SyncedMoves DEF IInv
  <2> HIDE DEF v
  <2>2. /\ hBitBuf.ValidBits \in Int /\ BitsInCache \in Int /\ Fed \in Int /\ ReadPos \in Int /\ mark \in Int
        /\ ReadPos = Fed - hBitBuf.ValidBits - BitsInCache
    BY Fields DEF IInv
  <2>3. Fed - BufBits <= mark /\ mark <= ReadPos /\ BufBits \in Int
    BY Sizes DEF IInv, MarkInReach
  <2> QED BY <2>1, <2>2, <2>3
<1>2. x \in Nat /\ x <= BufBits /\ x <= BufBits - v
  <2> HIDE DEF v
  <2>1. FreeBits(Synced) = BufBits - v
    BY DEF FreeBits, v
  <2> QED BY <1>1, <2>1, Sizes DEF Smaller, Larger
<1> HIDE DEF x, v
<1>3. x \div ByteBits \in Nat /\ \A k \in Nat : k <= x \div ByteBits => k * ByteBits <= x
  BY <1>2, Sizes, WholeBytes
<1>4. n = Smaller(x \div ByteBits, offered)
  BY DEF FeedBytes, x
<1> DEFINE q == x \div ByteBits
<1>5. q \in Nat /\ n = Smaller(q, offered) /\ \A k \in Nat : k <= q => k * ByteBits <= x
  BY <1>3, <1>4
<1> HIDE DEF q, n
<1>6. n \in Nat /\ n <= offered /\ n <= q
  BY <1>5 DEF Smaller
<1>7. n * ByteBits <= x /\ n * ByteBits \in Int
  BY <1>5, <1>6, Sizes
<1> QED BY <1>1, <1>2, <1>6, <1>7, Sizes DEF n, v

\* Storing w bits at a keeps every older bit less than BufBits - w behind.
LEMMA OverwriteKeeps ==
  ASSUME NEW buffer \in [0..(BufBits - 1) -> Int], NEW a \in Int, NEW w \in Nat, w <= BufBits,
         NEW f \in Int, NEW d \in Int, d < w, d >= w - BufBits
  PROVE  LET src == [k \in 1..w |-> f + k - 1]
         IN  Overwrite(buffer, a, src, w)[RingBit(a + d)]
               = IF d >= 0 THEN f + d ELSE buffer[RingBit(a + d)]
<1> DEFINE src == [k \in 1..w |-> f + k - 1]
           i == RingBit(a + d)
           k == RingBit(i - a)
<1>1. i \in 0..(BufBits - 1)
  <2> DEFINE s == a + d
  <2>1. s \in Int
    OBVIOUS
  <2> HIDE DEF s
  <2> QED BY <2>1, RingBitFacts DEF s
<1>2. k = RingBit(d)
  <2> DEFINE s == a + d
             m == -a
  <2>1. s \in Int /\ m \in Int /\ s + m = d
    OBVIOUS
  <2>2. i - a = i + m
    BY <1>1
  <2> HIDE DEF s, m
  <2>3. RingBit(RingBit(s) + m) = RingBit(s + m)
    BY <2>1, RingTwice
  <2> QED BY <2>1, <2>2, <2>3 DEF s
<1>3. Overwrite(buffer, a, src, w)[i] = IF k < w THEN src[k + 1] ELSE buffer[i]
  BY <1>1 DEF Overwrite
<1>4. CASE d >= 0
  <2>1. d \in 0..(BufBits - 1)
    BY <1>4, Sizes
  <2>2. k = d
    BY <1>2, <2>1, RingBitFacts
  <2> HIDE DEF k, i
  <2>3. src[k + 1] = f + d
    BY <1>4, <2>2
  <2> HIDE DEF src
  <2>4. Overwrite(buffer, a, src, w)[i] = f + d
    BY <1>3, <2>2, <2>3
  <2> QED BY <1>4, <2>4 DEF i, src
<1>5. CASE d < 0
  <2>1. d \in (-BufBits)..(-1)
    BY <1>5, Sizes
  <2>2. k = d + BufBits
    BY <1>2, <2>1, RingBitFacts
  <2> HIDE DEF k, i, src
  <2>3. ~(k < w)
    BY <2>2, Sizes
  <2>4. Overwrite(buffer, a, src, w)[i] = buffer[i]
    BY <1>3, <2>3
  <2>5. ~(d >= 0)
    BY <1>5
  <2> QED BY <2>4, <2>5 DEF i, src
<1> QED BY <1>4, <1>5

LEMMA FeedKeepsInv ==
  ASSUME IInv, FeedBuffer
  PROVE  /\ IInv' /\ ReadPos' = ReadPos /\ Fed' \in Nat /\ Fed' >= Fed
         /\ Fed' - ReadPos' <= BufBits
         /\ \E n \in Nat : Fed' = Fed + n * ByteBits
<1> DEFINE n == FeedBytes(Synced, chunk.bytesValid)
           w == n * ByteBits
           v == Synced.ValidBits
           a == hBitBuf.ReadOffset * ByteBits
           old == hBitBuf.Buffer
           f == Fed
           src == [k \in 1..w |-> f + k - 1]
<1>0. BufBits \in Nat
  BY Sizes
<1>1. /\ TypeOK /\ ReadPos \in Int /\ mark \in Int /\ f \in Nat /\ BitsInCache \in Nat
      /\ chunk.first \in Nat /\ chunk.size \in Nat /\ chunk.bytesValid \in Nat
      /\ chunk.bytesValid <= chunk.size /\ a \in Int /\ old \in [0..(BufBits - 1) -> Int]
      /\ hBitBuf.ValidBits \in Int /\ hBitBuf.ReadOffset \in 0..(BufSize - 1)
  BY Fields DEF IInv, TypeOK
<1>2. /\ v = hBitBuf.ValidBits + BitsInCache /\ v \in Int /\ ReadPos = f - v
      /\ Synced \in BitBuf(Bit) /\ Synced.ReadOffset = hBitBuf.ReadOffset /\ Synced.Buffer = old
      /\ RingBit(Synced.BitNdx + v) = a /\ Synced.BitNdx \in Int
  <2>1. Synced = Moved(hBitBuf, -BitsInCache) /\ v = hBitBuf.ValidBits + BitsInCache /\ -BitsInCache \in Int
    BY <1>1, SyncedMoves
  <2>2. CursorsAgree
    BY DEF IInv
  <2>3. /\ Synced \in BitBuf(Bit) /\ Synced.ReadOffset = hBitBuf.ReadOffset /\ Synced.Buffer = old
        /\ RingBit(Synced.BitNdx + v) = a
    BY <1>1, <2>1, <2>2, MovedFacts
  <2>4. Synced.BitNdx \in Int
    BY <2>3 DEF BitBuf
  <2>5. ReadPos = f - v
    BY <1>1, <2>1, Fields
  <2> QED BY <1>1, <2>1, <2>3, <2>4, <2>5
<1>3. /\ n \in Nat /\ n <= chunk.bytesValid /\ w <= BufBits /\ w <= BufBits - v
  BY <1>1, FeedBytesFit
<1>4. w \in Nat
  <2> HIDE DEF n
  <2> QED BY <1>3, Sizes, SMTT(30)
<1>5. /\ hBitBuf' = Feed(Synced, src, n) /\ chunk' = [chunk EXCEPT !.bytesValid = @ - n]
      /\ CacheWord' = NoWord /\ BitsInCache' = 0 /\ mark' = ReadPos /\ out' = << >>
      /\ anchor' = anchor
  BY DEF FeedBuffer, CacheEmpty, NotARead, Fed
<1>6. Fed' = f + w
  <2>1. chunk'.first = chunk.first /\ chunk'.size = chunk.size /\ chunk'.bytesValid = chunk.bytesValid - n
    BY <1>5 DEF IInv, TypeOK
  <2> DEFINE s == chunk.size - chunk.bytesValid
  <2>2. s \in Nat /\ chunk.size - (chunk.bytesValid - n) = s + n
    <3> HIDE DEF n
    <3> QED BY <1>1, <1>3
  <2> HIDE DEF s, n
  <2>3. (s + n) * ByteBits = s * ByteBits + n * ByteBits
    BY <1>3, <2>2, Sizes, SMTT(30)
  <2>4. f = chunk.first + s * ByteBits /\ Fed' = chunk.first + (s + n) * ByteBits
    BY <2>1, <2>2 DEF Fed, s
  <2>5. s * ByteBits \in Int
    BY <2>2, Sizes
  <2> QED BY <1>1, <1>4, <2>3, <2>4, <2>5
<1>7. /\ hBitBuf'.Buffer = Overwrite(old, a, src, w) /\ hBitBuf'.ReadOffset = RingByte(hBitBuf.ReadOffset + n)
      /\ hBitBuf'.ValidBits = v + w /\ hBitBuf'.BitNdx = Synced.BitNdx
      /\ hBitBuf'.WriteOffset = Synced.WriteOffset
  <2> HIDE DEF n, src
  <2> QED BY <1>2, <1>5 DEF Feed, BitBuf
<1> HIDE DEF n, v
<1>17. \E k \in Nat : Fed' = Fed + k * ByteBits
  BY <1>3, <1>6
<1>8. ReadPos' = ReadPos
  <2> HIDE DEF w
  <2> QED BY <1>1, <1>2, <1>4, <1>5, <1>6, <1>7 DEF ReadPos
<1>9. RingByte(hBitBuf.ReadOffset + n) * ByteBits = RingBit(a + w)
  <2> DEFINE r == hBitBuf.ReadOffset
  <2>1. r \in Int /\ r + n \in Int
    BY <1>1, <1>3
  <2> HIDE DEF r
  <2>2. ((r + n) % BufSize) * ByteBits = ((r + n) * ByteBits) % (BufSize * ByteBits)
    BY <2>1, Sizes, ModScale
  <2>3. (r + n) * ByteBits = r * ByteBits + n * ByteBits
    BY <1>3, <2>1, Sizes, SMTT(30)
  <2> QED BY <2>2, <2>3, Sizes DEF RingByte, RingBit, r
<1> HIDE DEF a, w, old, f, src
<1>10. hBitBuf' \in BitBuf(Bit)
  <2>1. Overwrite(old, a, src, w) \in [0..(BufBits - 1) -> Int]
    <3> SUFFICES ASSUME NEW i \in 0..(BufBits - 1)
                 PROVE  (IF RingBit(i - a) < w THEN src[RingBit(i - a) + 1] ELSE old[i]) \in Int
      BY DEF Overwrite
    <3> DEFINE k == RingBit(i - a)
    <3>1. i - a \in Int
      BY <1>1
    <3>2. k \in Nat
      <4> DEFINE s == i - a
      <4> HIDE DEF s
      <4>1. RingBit(s) \in 0..(BufBits - 1)
        BY <3>1, RingBitFacts DEF s
      <4> QED BY <4>1, Sizes DEF s
    <3> HIDE DEF k
    <3>3. k < w => src[k + 1] \in Int
      BY <1>1, <1>4, <3>2 DEF src
    <3> QED BY <1>1, <3>3 DEF k
  <2>2. RingByte(hBitBuf.ReadOffset + n) \in 0..(BufSize - 1)
    <3>1. hBitBuf.ReadOffset + n \in Int
      BY <1>1, <1>3
    <3> QED BY <3>1, Sizes, DivMod DEF RingByte
  <2>3. v + w \in Int
    BY <1>2, <1>4
  <2> DEFINE M == [0..(BufBits - 1) -> Int]
             R == 0..(BufSize - 1)
             I == 0..(BufBits - 1)
             B == Overwrite(old, a, src, w)
  <2>4. Synced \in [ValidBits : Int, ReadOffset : R, WriteOffset : R, BitNdx : I, Buffer : M]
    BY <1>2 DEF BitBuf, Bit
  <2>5. hBitBuf' = [Synced EXCEPT !.Buffer = B, !.ReadOffset = RingByte(hBitBuf.ReadOffset + n),
                                  !.ValidBits = v + w]
    BY <1>2, <1>5 DEF Feed, w, a, v
  <2>6. B \in M
    BY <2>1
  <2> HIDE DEF M, I, R, B
  <2>7. hBitBuf' \in [ValidBits : Int, ReadOffset : R, WriteOffset : R, BitNdx : I, Buffer : M]
    BY <2>2, <2>3, <2>4, <2>5, <2>6 DEF R
  <2> QED BY <2>7 DEF M, R, I, BitBuf, Bit
<1>11. TypeOK'
  <2>1. chunk' \in [first : Nat, size : Nat, bytesValid : Nat] /\ chunk'.bytesValid <= chunk'.size
    <3>1. chunk \in [first : Nat, size : Nat, bytesValid : Nat]
      BY <1>1 DEF TypeOK
    <3>2. chunk.bytesValid - n \in Nat /\ chunk.bytesValid - n <= chunk.size
      BY <1>1, <1>3
    <3> QED BY <1>5, <3>1, <3>2
  <2>2. NoWord \in [1..CacheBits -> Bit] /\ 0 \in 0..CacheBits /\ << >> \in Seq(Bit)
    BY Sizes DEF NoWord, Bit, Blank
  <2> QED BY <1>1, <1>5, <1>10, <2>1, <2>2 DEF TypeOK
<1>12. CursorsAgree'
  <2> DEFINE x == Synced.BitNdx + v
  <2>1. x \in Int /\ Synced.BitNdx + (v + w) = x + w /\ w \in Int
    BY <1>2, <1>4
  <2>2. RingBit(x) = a
    BY <1>2
  <2> HIDE DEF x
  <2>3. RingBit(a + w) = RingBit(x + w)
    BY <2>1, <2>2, RingTwice
  <2> QED BY <1>7, <1>9, <2>1, <2>3 DEF CursorsAgree
<1>13. KeptInRing'
  <2> SUFFICES ASSUME NEW p \in mark'..(Fed' - 1)
               PROVE  hBitBuf'.Buffer[RingBit(hBitBuf'.ReadOffset * ByteBits + (p - Fed'))] = p
    BY DEF KeptInRing
  <2>0. p \in Int /\ ReadPos <= p /\ p < f + w /\ Fed' = f + w
    BY <1>1, <1>4, <1>5, <1>6
  <2> DEFINE d == p - f
             e == p - (f + w)
             s == a + w
  <2>1. p \in Int /\ d \in Int /\ e \in Int /\ s \in Int /\ s + e = a + d
    BY <1>1, <1>4, <2>0
  <2>2. d < w /\ d >= w - BufBits
    BY <1>0, <1>1, <1>2, <1>3, <1>4, <2>0
  <2>3. RingBit(hBitBuf'.ReadOffset * ByteBits + e) = RingBit(a + d)
    <3> HIDE DEF e
    <3>1. hBitBuf'.ReadOffset * ByteBits = RingBit(s)
      BY <1>7, <1>9
    <3> HIDE DEF s, d
    <3> QED BY <2>1, <3>1, RingTwice
  <2>4. Overwrite(old, a, src, w)[RingBit(a + d)] = IF d >= 0 THEN f + d ELSE old[RingBit(a + d)]
    <3> HIDE DEF d
    <3>1. f \in Int /\ a \in Int /\ old \in [0..(BufBits - 1) -> Int] /\ w \in Nat /\ w <= BufBits
          /\ d \in Int /\ d < w /\ d >= w - BufBits
      BY <1>1, <1>3, <1>4, <2>1, <2>2
    <3>2. LET z == [k \in 1..w |-> f + k - 1]
          IN  Overwrite(old, a, z, w)[RingBit(a + d)] = IF d >= 0 THEN f + d ELSE old[RingBit(a + d)]
      BY <3>1, OverwriteKeeps
    <3> QED BY <3>2 DEF src
  <2>5. d < 0 => old[RingBit(a + d)] = p
    <3> SUFFICES ASSUME d < 0 PROVE old[RingBit(a + d)] = p
      OBVIOUS
    <3>1. p \in mark..(f - 1)
      BY <1>1, <2>0 DEF IInv, MarkInReach
    <3> QED BY <3>1 DEF IInv, KeptInRing, old, a, f
  <2>6. d >= 0 => f + d = p
    BY <1>1, <2>1
  <2>7. d >= 0 \/ d < 0
    BY <2>1
  <2>8. hBitBuf'.Buffer[RingBit(hBitBuf'.ReadOffset * ByteBits + e)] = p
    <3> HIDE DEF d, e
    <3> QED BY <1>7, <2>1, <2>3, <2>4, <2>5, <2>6, <2>7
  <2> QED BY <2>0, <2>8
<1>14. MarkInReach' /\ Fed' - ReadPos' <= BufBits
  <2>1. mark' = ReadPos
    BY <1>5
  <2>2. (f + w) - BufBits <= ReadPos /\ (f + w) - ReadPos <= BufBits /\ ReadPos <= ReadPos
    <3>1. /\ f \in Int /\ v \in Int /\ w \in Int /\ BufBits \in Int /\ ReadPos \in Int
          /\ ReadPos = f - v /\ w <= BufBits - v
      BY <1>0, <1>1, <1>2, <1>3, <1>4
    <3> QED BY <3>1
  <2> QED BY <1>6, <1>8, <2>1, <2>2 DEF MarkInReach
<1>15. CacheCoherent' /\ LastBitCached'
  BY <1>5 DEF CacheCoherent, LastBitCached
<1>16. Fed' \in Nat /\ Fed' >= f
  BY <1>1, <1>4, <1>6
<1> QED BY <1>8, <1>11, <1>12, <1>13, <1>14, <1>15, <1>16, <1>17 DEF IInv, f

LEMMA OfferKeepsInv ==
  ASSUME IInv, OfferChunk
  PROVE  IInv' /\ Fed' = Fed /\ ReadPos' = ReadPos /\ out' = << >>
<1>1. PICK n \in 1..MaxChunk : chunk' = [first |-> Fed, size |-> n, bytesValid |-> n]
  BY DEF OfferChunk
<1>2. /\ hBitBuf' = hBitBuf /\ CacheWord' = CacheWord /\ BitsInCache' = BitsInCache
      /\ anchor' = anchor /\ mark' = mark /\ out' = << >>
  BY DEF OfferChunk, NotARead
<1>3. Fed \in Nat /\ n \in Nat /\ TypeOK
  BY Fields DEF IInv
<1>4. Fed' = Fed
  <2>1. Fed' = Fed + (n - n) * ByteBits
    BY <1>1 DEF Fed
  <2>2. (n - n) * ByteBits = 0
    <3>1. n - n = 0
      BY <1>3
    <3> QED BY <3>1, Sizes
  <2> QED BY <1>3, <2>1, <2>2
<1>5. ReadPos' = ReadPos
  BY <1>2, <1>4 DEF ReadPos
<1>6. TypeOK'
  <2>1. chunk' \in [first : Nat, size : Nat, bytesValid : Nat] /\ chunk'.bytesValid <= chunk'.size
    BY <1>1, <1>3
  <2>2. << >> \in Seq(Bit)
    OBVIOUS
  <2> QED BY <1>2, <1>3, <2>1, <2>2 DEF TypeOK
<1> QED BY <1>2, <1>4, <1>5, <1>6
        DEF IInv, CursorsAgree, KeptInRing, MarkInReach, CacheCoherent, LowBits, LastBitCached

LEMMA ResetKeepsInv ==
  ASSUME IInv, ResetBuffer
  PROVE  IInv' /\ Fed' = Fed /\ ReadPos' = Fed
<1>1. /\ hBitBuf'.ValidBits = 0 /\ hBitBuf'.ReadOffset = 0 /\ hBitBuf'.BitNdx = 0
      /\ hBitBuf' \in BitBuf(Bit)
  <2>1. 0 \in 0..(BufSize - 1) /\ 0 \in 0..(BufBits - 1)
    BY Sizes
  <2>2. hBitBuf \in BitBuf(Bit)
    BY DEF IInv, TypeOK
  <2> DEFINE M == [0..(BufBits - 1) -> Bit]
             R == 0..(BufSize - 1)
             I == 0..(BufBits - 1)
  <2>3. hBitBuf \in [ValidBits : Int, ReadOffset : R, WriteOffset : R, BitNdx : I, Buffer : M]
    BY <2>2 DEF BitBuf
  <2>4. 0 \in R /\ 0 \in I /\ 0 \in Int
    BY <2>1
  <2> HIDE DEF M, R, I
  <2>5. hBitBuf' = [hBitBuf EXCEPT !.ValidBits = 0, !.ReadOffset = 0, !.WriteOffset = 0, !.BitNdx = 0]
    BY DEF ResetBuffer, ResetBitBuffer
  <2>6. hBitBuf' \in [ValidBits : Int, ReadOffset : R, WriteOffset : R, BitNdx : I, Buffer : M]
    BY <2>3, <2>4, <2>5
  <2>7. hBitBuf'.ValidBits = 0 /\ hBitBuf'.ReadOffset = 0 /\ hBitBuf'.BitNdx = 0
    BY <2>3, <2>5
  <2> QED BY <2>6, <2>7 DEF M, R, I, BitBuf
<1>2. /\ chunk' = chunk /\ mark' = Fed /\ CacheWord' = NoWord /\ BitsInCache' = 0
      /\ out' = << >> /\ anchor' = [bits |-> 0, pos |-> Fed]
  BY DEF ResetBuffer, CacheEmpty, NotARead
<1>3. Fed' = Fed /\ Fed \in Nat /\ BufBits \in Nat /\ ByteBits \in Nat
  BY <1>2, Fields, Sizes DEF Fed, IInv
<1>4. ReadPos' = Fed
  BY <1>1, <1>2, <1>3 DEF ReadPos
<1>5. TypeOK'
  <2>1. NoWord \in [1..CacheBits -> Bit] /\ 0 \in 0..CacheBits /\ << >> \in Seq(Bit)
    BY Sizes DEF NoWord, Bit, Blank
  <2>2. chunk \in [first : Nat, size : Nat, bytesValid : Nat] /\ chunk.bytesValid <= chunk.size
    BY DEF IInv, TypeOK
  <2>3. anchor' \in [bits : Int, pos : Int] /\ mark' \in Int
    BY <1>2, <1>3
  <2> QED BY <1>1, <1>2, <2>1, <2>2, <2>3 DEF TypeOK
<1>6. CursorsAgree'
  <2>1. RingBit(0) = 0
    BY RingBitFacts, Sizes
  <2>2. 0 + 0 = 0 /\ 0 * ByteBits = 0
    BY <1>3
  <2> QED BY <1>1, <2>1, <2>2 DEF CursorsAgree
<1>7. KeptInRing' /\ MarkInReach'
  BY <1>2, <1>3, <1>4 DEF KeptInRing, MarkInReach
<1>8. CacheCoherent' /\ LastBitCached'
  BY <1>2 DEF CacheCoherent, LastBitCached
<1> QED BY <1>3, <1>4, <1>5, <1>6, <1>7, <1>8 DEF IInv

LEMMA InitInv ==
  ASSUME Init
  PROVE  IInv /\ Fed = 0 /\ ReadPos = 0 /\ AnchorOnByte
<1>1. /\ hBitBuf = [ValidBits |-> 0, ReadOffset |-> 0, WriteOffset |-> 0, BitNdx |-> 0,
                     Buffer |-> [i \in 0..(BufBits - 1) |-> Blank]]
      /\ chunk = [first |-> 0, size |-> 0, bytesValid |-> 0] /\ anchor = [bits |-> 0, pos |-> 0]
      /\ CacheWord = NoWord /\ BitsInCache = 0 /\ mark = 0 /\ out = << >>
  BY DEF Init, InitBitBuffer
<1>2. Fed = 0
  BY <1>1, Sizes DEF Fed
<1>3. ReadPos = 0
  BY <1>1, <1>2 DEF ReadPos
<1>4. TypeOK
  <2>1. NoWord \in [1..CacheBits -> Bit] /\ 0 \in 0..CacheBits /\ << >> \in Seq(Bit)
    BY Sizes DEF NoWord, Bit, Blank
  <2>2. 0 \in 0..(BufSize - 1) /\ 0 \in 0..(BufBits - 1)
    BY Sizes
  <2>3. hBitBuf \in BitBuf(Bit)
    BY <1>1, <2>2 DEF BitBuf, Bit, Blank
  <2> QED BY <1>1, <2>1, <2>3 DEF TypeOK
<1>5. CursorsAgree
  <2>1. RingBit(0) = 0
    BY RingBitFacts, Sizes
  <2>2. 0 + 0 = 0 /\ 0 * ByteBits = 0
    BY Sizes
  <2> QED BY <1>1, <2>1, <2>2 DEF CursorsAgree
<1>6. KeptInRing /\ MarkInReach
  BY <1>1, <1>2, <1>3, Sizes DEF KeptInRing, MarkInReach
<1>7. CacheCoherent /\ LastBitCached
  BY <1>1 DEF CacheCoherent, LastBitCached
<1>8. AnchorOnByte
  <2>1. 0 % ByteBits = 0
    BY Sizes, ModSmall
  <2>2. anchor.pos + anchor.bits - Fed = 0
    BY <1>1, <1>2
  <2> QED BY <2>1, <2>2 DEF AnchorOnByte
<1> QED BY <1>2, <1>3, <1>4, <1>5, <1>6, <1>7, <1>8 DEF IInv

-----------------------------------------------------------------------------
LEMMA NextInv ==
  ASSUME IInv, [Next]_vars
  PROVE  IInv'
<1>1. CASE OfferChunk
  BY <1>1, OfferKeepsInv
<1>2. CASE FeedBuffer
  BY <1>2, FeedKeepsInv
<1>3. CASE GetValidBits
  BY <1>3, GetValidBitsKeepsInv
<1>4. CASE ByteAlign
  BY <1>4, ByteAlignKeepsInv
<1>5. CASE ResetBuffer
  BY <1>5, ResetKeepsInv
<1>6. CASE PushBackCache
  BY <1>6, PushBackCacheKeepsInv
<1>7. ASSUME NEW n \in 0..CacheBits, ReadBits(n) PROVE IInv'
  BY <1>7, ReadKeepsInv
<1>8. ASSUME NEW n \in 0..BufBits, PushBackBits(n) PROVE IInv'
  BY <1>8, PushBackKeepsInv
<1>9. ASSUME NEW n \in 0..MaxSkip, PushForBits(n) PROVE IInv'
  BY <1>9, PushForKeepsInv, StreamAssumption
<1>10. CASE UNCHANGED vars
  BY <1>10 DEF vars, IInv, TypeOK, CursorsAgree, KeptInRing, MarkInReach, CacheCoherent, LowBits,
               LastBitCached, Fed, ReadPos
<1> QED BY <1>1, <1>2, <1>3, <1>4, <1>5, <1>6, <1>7, <1>8, <1>9, <1>10 DEF Next

THEOREM Invariance == Spec => []IInv
<1>1. Init => IInv
  BY InitInv
<1>2. IInv /\ [Next]_vars => IInv'
  BY NextInv
<1> QED BY <1>1, <1>2, PTL DEF Spec

\* The reader's state has the types the code declares, for every size of ring
\* and cache (FDK_BITSTREAM, FDK_bitstream.h).
THEOREM TypeCorrect == Spec => []TypeOK
<1>1. IInv => TypeOK
  BY DEF IInv
<1> QED BY <1>1, Invariance, PTL

\* FDK_Feed never overwrites a bit that may still be read or un-read.
THEOREM NoBitOverwritten == Spec => []RewindableBitsKept
<1>1. IInv => RewindableBitsKept
  BY KeptIsRewindable
<1> QED BY <1>1, Invariance, PTL

\* The bits FDKreadBits and FDKpushBackCache find in the cache are the ones at
\* the reader's position.
THEOREM CacheHoldsNextBits == Spec => []CacheCoherent
<1>1. IInv => CacheCoherent
  BY DEF IInv
<1> QED BY <1>1, Invariance, PTL

\* BitNdx, ValidBits and ReadOffset always describe the same end of input.
THEOREM CursorsStayTogether == Spec => []CursorsAgree
<1>1. IInv => CursorsAgree
  BY DEF IInv
<1> QED BY <1>1, Invariance, PTL

-----------------------------------------------------------------------------
LEMMA NextPosTyped ==
  ASSUME TypeOK'
  PROVE  ReadPos' \in Int
<1>1. /\ chunk'.first \in Nat /\ chunk'.size \in Nat /\ chunk'.bytesValid \in Nat
      /\ hBitBuf'.ValidBits \in Int /\ BitsInCache' \in Int
  BY Sizes DEF TypeOK, BitBuf
<1>2. (chunk'.size - chunk'.bytesValid) * ByteBits \in Int
  BY <1>1, Sizes
<1> QED BY <1>1, <1>2 DEF ReadPos, Fed

\* Each call is one step of the abstract sequence of bits, or none.
LEMMA StepSimulates ==
  ASSUME IInv, [Next]_vars
  PROVE  [Fifo!Next]_(Fifo!fifoVars)
<1>0. IInv' /\ ReadPos' \in Int /\ Fed \in Nat /\ ReadPos \in Int
  BY NextInv, NextPosTyped, Fields DEF IInv
<1>1. CASE OfferChunk
  BY <1>0, <1>1, OfferKeepsInv DEF Fifo!Next, Fifo!Move
<1>2. CASE FeedBuffer
  <2>1. /\ ReadPos' = ReadPos /\ Fed' \in Nat /\ Fed' >= Fed /\ Fed' - ReadPos' <= BufBits /\ out' = << >>
    BY <1>2, FeedKeepsInv DEF FeedBuffer, NotARead
  <2>2. CASE Fed' > Fed
    BY <2>1, <2>2 DEF Fifo!Next, Fifo!Store
  <2>3. CASE ~(Fed' > Fed)
    <3>1. Fed' = Fed
      BY <1>0, <2>1, <2>3
    <3> QED BY <1>0, <2>1, <3>1 DEF Fifo!Next, Fifo!Move
  <2> QED BY <2>2, <2>3
<1>3. CASE GetValidBits
  BY <1>0, <1>3, GetValidBitsKeepsInv DEF Fifo!Next, Fifo!Move, GetValidBits, NotARead
<1>4. CASE ByteAlign
  BY <1>0, <1>4, ByteAlignKeepsInv DEF Fifo!Next, Fifo!Move, ByteAlign, NotARead
<1>5. CASE ResetBuffer
  BY <1>5, ResetKeepsInv DEF Fifo!Next, Fifo!Drop, ResetBuffer, NotARead
<1>6. CASE PushBackCache
  BY <1>0, <1>6, PushBackCacheKeepsInv DEF Fifo!Next, Fifo!Move, PushBackCache, NotARead
<1>7. ASSUME NEW n \in 0..CacheBits, ReadBits(n) PROVE Fifo!Next
  <2>1. /\ Fed' = Fed /\ ReadPos' = ReadPos + n /\ out' \in Seq(Bit) /\ Len(out') = n
        /\ \A k \in 1..n : ReadPos + k - 1 < Fed => out'[k] = ReadPos + k - 1
    BY <1>7, ReadKeepsInv
  <2>2. ReadPos' - ReadPos = n /\ n \in Nat
    BY <1>0, <2>1, Sizes
  <2>3. DOMAIN out' = 1..n
    BY <2>1
  <2> QED BY <2>1, <2>2, <2>3 DEF Fifo!Next, Fifo!Read
<1>8. ASSUME NEW n \in 0..BufBits, PushBackBits(n) PROVE Fifo!Next
  BY <1>0, <1>8, PushBackKeepsInv DEF Fifo!Next, Fifo!Move, PushBackBits, NotARead
<1>9. ASSUME NEW n \in 0..MaxSkip, PushForBits(n) PROVE Fifo!Next
  <2>1. n \in Nat
    BY StreamAssumption
  <2> QED BY <1>0, <1>9, <2>1, PushForKeepsInv DEF Fifo!Next, Fifo!Move, PushForBits, NotARead
<1>10. CASE UNCHANGED vars
  BY <1>10 DEF vars, Fed, ReadPos, Fifo!fifoVars
<1> QED BY <1>1, <1>2, <1>3, <1>4, <1>5, <1>6, <1>7, <1>8, <1>9, <1>10 DEF Next

\* The reader behaves as one first-in first-out sequence of bits, whatever the
\* sizes of ring, byte and cache: the refinement the run checks.
THEOREM ReaderIsFifo == Spec => ImplementsFifo
<1>1. Init => Fifo!Init
  BY InitInv DEF Fifo!Init, Init
<1>2. IInv /\ [Next]_vars => [Fifo!Next]_(Fifo!fifoVars)
  BY StepSimulates
<1> QED BY <1>1, <1>2, Invariance, PTL DEF Spec, ImplementsFifo, Fifo!Spec

-----------------------------------------------------------------------------
\* A multiple of a byte leaves no remainder, and the other way around.
LEMMA MultipleOfByte ==
  ASSUME NEW a \in Int
  PROVE  a % ByteBits = 0 <=> \E q \in Int : a = ByteBits * q
<1>1. ASSUME NEW q \in Int, a = ByteBits * q PROVE a % ByteBits = 0
  <2> DEFINE z == 0
  <2>1. z \in Int /\ a = z + ByteBits * q /\ z \in 0..(ByteBits - 1) /\ z = 0
    BY <1>1, Sizes
  <2> HIDE DEF z
  <2>2. a % ByteBits = z % ByteBits
    BY <2>1, Sizes, ModPeriod
  <2> QED BY <2>1, <2>2, Sizes, ModSmall
<1>2. ASSUME a % ByteBits = 0 PROVE a \div ByteBits \in Int /\ a = ByteBits * (a \div ByteBits)
  BY <1>2, Sizes, DivMod
<1> QED BY <1>1, <1>2

\* The gap to the next byte closes the distance from the anchor.
LEMMA GapCloses ==
  ASSUME IInv, AnchorOnByte
  PROVE  AlignGap \in 0..(ByteBits - 1) /\ ((ReadPos + AlignGap) - anchor.pos) % ByteBits = 0
<1> DEFINE u == anchor.bits - Synced.ValidBits
           r == u % ByteBits
           t == anchor.pos + anchor.bits - Fed
<1>1. /\ TypeOK /\ Fed \in Int /\ ReadPos \in Int /\ anchor.bits \in Int /\ anchor.pos \in Int
      /\ Synced.ValidBits \in Int /\ Synced.ValidBits = Fed - ReadPos
  <2>1. /\ TypeOK /\ Fed \in Int /\ ReadPos \in Int /\ hBitBuf.ValidBits \in Int /\ BitsInCache \in Int
        /\ ReadPos = Fed - hBitBuf.ValidBits - BitsInCache
    BY Fields DEF IInv
  <2>2. anchor.bits \in Int /\ anchor.pos \in Int
    BY <2>1 DEF TypeOK
  <2>3. Synced.ValidBits = hBitBuf.ValidBits + BitsInCache
    BY <2>1, SyncedMoves
  <2> QED BY <2>1, <2>2, <2>3
<1>2. u \in Int /\ t \in Int /\ u = ReadPos - anchor.pos + t
  BY <1>1
<1>3. PICK q \in Int : t = ByteBits * q
  BY <1>2, MultipleOfByte DEF AnchorOnByte
<1> HIDE DEF u, t
<1>4. r \in 0..(ByteBits - 1) /\ u \div ByteBits \in Int /\ u = ByteBits * (u \div ByteBits) + r
  BY <1>2, Sizes, DivMod
<1>5. PICK k \in Int : u = ByteBits * k + r
  BY <1>4
<1> HIDE DEF r
<1> DEFINE b == ByteBits - r
           gap == b % ByteBits
<1>6. b \in Int
  BY <1>4, Sizes
<1> HIDE DEF b
<1>7. gap \in 0..(ByteBits - 1) /\ b \div ByteBits \in Int /\ b = ByteBits * (b \div ByteBits) + gap
  BY <1>6, Sizes, DivMod
<1>8. PICK j \in Int : b = ByteBits * j + gap
  BY <1>7
<1>9. AlignGap = gap
  BY DEF AlignGap, gap, b, r, u
<1> HIDE DEF gap
<1>10. (ReadPos + gap) - anchor.pos = ByteBits * (k + 1 - j - q)
  <2> DEFINE x == ByteBits * k
             y == ByteBits * j
             z == ByteBits * q
  <2>1. x \in Int /\ y \in Int /\ z \in Int /\ ByteBits \in Int
    BY Sizes
  <2>2. ByteBits * (k + 1 - j - q) = x + ByteBits - y - z
    BY Sizes, SMTT(30)
  <2>3. u = x + r /\ ByteBits - r = y + gap /\ t = z
    BY <1>3, <1>5, <1>8 DEF b
  <2>4. r \in Int /\ gap \in Int
    BY <1>4, <1>7, Sizes
  <2> DEFINE g == ByteBits * (k + 1 - j - q)
  <2> HIDE DEF x, y, z, g
  <2>5. g = x + ByteBits - y - z
    BY <2>2 DEF g
  <2>6. (ReadPos + gap) - anchor.pos = g
    <3>1. /\ x \in Int /\ y \in Int /\ z \in Int /\ ByteBits \in Int /\ r \in Int /\ gap \in Int
          /\ u \in Int /\ t \in Int /\ ReadPos \in Int /\ anchor.pos \in Int
      BY <1>1, <1>2, <2>1, <2>4
    <3>2. ReadPos - anchor.pos = u - t
      BY <1>2, <3>1
    <3>3. u - t + gap = g
      BY <2>3, <2>5, <3>1
    <3> QED BY <3>1, <3>2, <3>3
  <2> QED BY <2>6 DEF g
<1>11. k + 1 - j - q \in Int /\ (ReadPos + gap) - anchor.pos \in Int
  BY <1>1, <1>7
<1>12. ((ReadPos + gap) - anchor.pos) % ByteBits = 0
  BY <1>10, <1>11, MultipleOfByte
<1> QED BY <1>7, <1>9, <1>12

LEMMA AnchorStaysOnByte ==
  ASSUME IInv, AnchorOnByte, [Next]_vars
  PROVE  AnchorOnByte'
<1>0. /\ TypeOK /\ Fed \in Int /\ ReadPos \in Int /\ anchor.bits \in Int /\ anchor.pos \in Int
  BY Fields DEF IInv, TypeOK
<1>1. CASE FeedBuffer
  <2>1. PICK n \in Nat : Fed' = Fed + n * ByteBits
    BY <1>1, FeedKeepsInv
  <2>2. anchor' = anchor
    BY <1>1 DEF FeedBuffer
  <2> DEFINE t == anchor.pos + anchor.bits - Fed
             z == n * ByteBits
  <2>3. t \in Int /\ z \in Int
    BY <1>0, Sizes
  <2>4. PICK q \in Int : t = ByteBits * q
    BY <2>3, MultipleOfByte DEF AnchorOnByte
  <2>5. t - z = ByteBits * (q - n)
    <3>1. ByteBits * (q - n) = ByteBits * q - n * ByteBits
      BY Sizes, SMTT(30)
    <3> QED BY <2>4, <3>1
  <2>6. q - n \in Int /\ t - z \in Int
    BY <2>3
  <2>7. (t - z) % ByteBits = 0
    <3> HIDE DEF t, z
    <3> QED BY <2>5, <2>6, MultipleOfByte
  <2>8. anchor.pos + anchor.bits - (Fed + z) = t - z
    <3> HIDE DEF z
    <3> QED BY <1>0, <2>3
  <2> QED BY <2>1, <2>2, <2>7, <2>8 DEF AnchorOnByte
<1>2. CASE GetValidBits
  <2>1. Fed' = Fed /\ anchor' = [bits |-> Synced.ValidBits, pos |-> ReadPos]
    BY <1>2, GetValidBitsKeepsInv DEF GetValidBits
  <2>2. Synced.ValidBits = Fed - ReadPos
    <3>1. /\ hBitBuf.ValidBits \in Int /\ BitsInCache \in Int
          /\ ReadPos = Fed - hBitBuf.ValidBits - BitsInCache
      BY <1>0, Fields
    <3>2. Synced.ValidBits = hBitBuf.ValidBits + BitsInCache
      BY <1>0, SyncedMoves
    <3> QED BY <1>0, <3>1, <3>2
  <2>3. ReadPos + (Fed - ReadPos) - Fed = 0
    BY <1>0
  <2>4. 0 % ByteBits = 0
    BY Sizes, ModSmall
  <2> QED BY <2>1, <2>2, <2>3, <2>4 DEF AnchorOnByte
<1>3. CASE ResetBuffer
  <2>1. Fed' = Fed /\ anchor' = [bits |-> 0, pos |-> Fed]
    BY <1>3, ResetKeepsInv DEF ResetBuffer
  <2>2. Fed + 0 - Fed = 0
    BY <1>0
  <2>3. 0 % ByteBits = 0
    BY Sizes, ModSmall
  <2> QED BY <2>1, <2>2, <2>3 DEF AnchorOnByte
<1>4. ASSUME anchor' = anchor, Fed' = Fed PROVE AnchorOnByte'
  BY <1>4 DEF AnchorOnByte
<1>5. CASE OfferChunk
  BY <1>4, <1>5, OfferKeepsInv DEF OfferChunk
<1>6. CASE ByteAlign
  BY <1>4, <1>6, ByteAlignKeepsInv DEF ByteAlign
<1>7. CASE PushBackCache
  BY <1>4, <1>7 DEF PushBackCache, Fed
<1>8. ASSUME NEW n \in 0..CacheBits, ReadBits(n) PROVE AnchorOnByte'
  BY <1>4, <1>8 DEF ReadBits, Fed
<1>9. ASSUME NEW n \in 0..BufBits, PushBackBits(n) PROVE AnchorOnByte'
  BY <1>4, <1>9 DEF PushBackBits, Fed
<1>10. ASSUME NEW n \in 0..MaxSkip, PushForBits(n) PROVE AnchorOnByte'
  BY <1>4, <1>10 DEF PushForBits, Fed
<1>11. CASE UNCHANGED vars
  BY <1>4, <1>11 DEF vars, Fed
<1> QED BY <1>1, <1>2, <1>3, <1>5, <1>6, <1>7, <1>8, <1>9, <1>10, <1>11 DEF Next

\* FDKbyteAlign goes forward by less than a byte to a multiple of a byte from
\* the anchor its caller took, whatever was fed, read or un-read in between,
\* for every size of byte, ring and cache.
THEOREM AlignsForEverySize == Spec => AlignsToAnchor
<1>1. Init => IInv /\ AnchorOnByte
  BY InitInv
<1>2. IInv /\ AnchorOnByte /\ [Next]_vars => IInv' /\ AnchorOnByte'
  BY NextInv, AnchorStaysOnByte
<1>3. IInv /\ AnchorOnByte /\ [Next]_vars
        => [ByteAlign => /\ (ReadPos' - anchor.pos) % ByteBits = 0
                         /\ ReadPos' - ReadPos \in 0..(ByteBits - 1)]_vars
  <2> SUFFICES ASSUME IInv, AnchorOnByte, ByteAlign
               PROVE  /\ (ReadPos' - anchor.pos) % ByteBits = 0
                      /\ ReadPos' - ReadPos \in 0..(ByteBits - 1)
    OBVIOUS
  <2>1. /\ ReadPos' = ReadPos + AlignGap /\ AlignGap \in 0..(ByteBits - 1)
        /\ ((ReadPos + AlignGap) - anchor.pos) % ByteBits = 0
    BY ByteAlignKeepsInv, GapCloses
  <2>2. ReadPos \in Int
    BY Fields DEF IInv
  <2>3. (ReadPos + AlignGap) - ReadPos = AlignGap
    BY <2>1, <2>2, Sizes
  <2>4. (ReadPos' - anchor.pos) % ByteBits = 0
    <3> DEFINE x == ReadPos'
               y == ReadPos + AlignGap
    <3>1. x = y /\ (y - anchor.pos) % ByteBits = 0
      BY <2>1
    <3> HIDE DEF x, y
    <3>2. (x - anchor.pos) % ByteBits = 0
      BY <3>1
    <3> QED BY <3>2 DEF x
  <2>5. ReadPos' - ReadPos \in 0..(ByteBits - 1)
    BY <2>1, <2>3, Zenon
  <2> QED BY <2>4, <2>5
<1> QED BY <1>1, <1>2, <1>3, PTL DEF Spec, AlignsToAnchor
=============================================================================
