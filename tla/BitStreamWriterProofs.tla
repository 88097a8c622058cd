------------------------ MODULE BitStreamWriterProofs ------------------------
(***************************************************************************)
(* Proofs about BitStreamWriter for every ring size, byte size and cache   *)
(* size, every set of patched fields and every length of a run: what is    *)
(* fetched, stored and cached is what was written, in order.               *)
(*                                                                         *)
(* The functions of FDK_bitbuffer.cpp are first shown to do to the stored  *)
(* bits, read off the ring as one sequence, what they are named for:       *)
(* append, take off the end, take off the front, replace.  The rest is     *)
(* about sequences.                                                        *)
(***************************************************************************)
EXTENDS BitStreamWriter, SequenceTheorems, TLAPS

\* The bits that are stored and not fetched, oldest first.
Contents(b) ==
  [k \in 1..b.ValidBits |-> b.Buffer[RingBit(b.WriteOffset * ByteBits + k - 1)]]

\* A ring whose two cursors and count agree.
Sound(b) ==
  /\ b \in BitBuf(Int)
  /\ b.ValidBits \in 0..BufBits
  /\ b.BitNdx = RingBit(b.WriteOffset * ByteBits + b.ValidBits)

\* The strengthening: the counts StoredInOrder does not mention.
CacheTyped ==
  /\ CacheWord \in Seq(Int)
  /\ BitsInCache \in 0..CacheBits /\ BitsInCache < CacheBits /\ BitsInCache <= Len(CacheWord)

HistoryTyped ==
  log \in Seq(Int) /\ fetched \in Seq(Int) /\ written \in Nat /\ anchor \in Int

\* What waits in the ring and in the cache together fits in the ring.
RoomLeft == hBitBuf.ValidBits + BitsInCache <= BufBits

WriterInv ==
  /\ Sound(hBitBuf)
  /\ CacheTyped
  /\ HistoryTyped
  /\ RoomLeft
  /\ StoredInOrder

-----------------------------------------------------------------------------
LEMMA Sizes ==
  /\ ByteBits \in Nat \ {0} /\ BufSize \in Nat \ {0}
  /\ BufBits \in Nat \ {0} /\ BufBits = BufSize * ByteBits
  /\ CacheBits \in Nat \ {0} /\ CacheBits <= BufBits
<1>1. ByteBits \in Nat \ {0} /\ BufSize \in Nat \ {0} /\ BufBits = BufSize * ByteBits
  BY BufferAssumption DEF BufBits
<1>2. BufSize * ByteBits \in Nat \ {0}
  BY <1>1, SMTT(30)
<1> QED BY <1>1, <1>2, WriterAssumption

\* Quotient and remainder.
LEMMA DivMod ==
  ASSUME NEW N \in Nat \ {0}, NEW a \in Int
  PROVE  /\ a % N \in 0..(N - 1)
         /\ a \div N \in Int
         /\ a = N * (a \div N) + (a % N)
  OBVIOUS

\* The remainder is the only number of the ring that is a multiple away.
LEMMA OnlyRemainder ==
  ASSUME NEW N \in Nat \ {0}, NEW a \in Int, NEW r \in 0..(N - 1), NEW q \in Int,
         a = r + N * q
  PROVE  a % N = r
<1>1. a % N \in 0..(N - 1) /\ a \div N \in Int /\ a = N * (a \div N) + (a % N)
  BY DivMod
<1> DEFINE m == a % N
           d == (a \div N) - q
<1>2. m \in 0..(N - 1) /\ d \in Int
  BY <1>1
<1>3. r = m + N * d
  <2> DEFINE x == N * (a \div N)
             y == N * q
  <2>1. N * d = x - y
    BY <1>1, SMTT(30)
  <2>2. x \in Int /\ y \in Int /\ a = x + m /\ a = r + y
    BY <1>1
  <2> HIDE DEF x, y, m, d
  <2> QED BY <1>2, <2>1, <2>2
<1> HIDE DEF m, d
<1>4. m = r
  BY <1>2, <1>3, SMTT(30)
<1> QED BY <1>4 DEF m

\* RingBit gives places in the ring, once is as good as twice, and a place in the
\* ring is its own.
LEMMA RingPlace ==
  ASSUME NEW a \in Int
  PROVE  /\ RingBit(a) \in 0..(BufBits - 1)
         /\ a \in 0..(BufBits - 1) => RingBit(a) = a
         /\ \A k \in Int : RingBit(RingBit(a) + k) = RingBit(a + k)
<1>0. BufBits \in Nat \ {0}
  BY Sizes
<1>1. RingBit(a) \in 0..(BufBits - 1)
  BY <1>0, DivMod DEF RingBit
<1>2. ASSUME a \in 0..(BufBits - 1) PROVE RingBit(a) = a
  <2> DEFINE q == 0
  <2>1. q \in Int /\ a = a + BufBits * q
    BY <1>0
  <2> HIDE DEF q
  <2> QED BY <1>0, <1>2, <2>1, OnlyRemainder DEF RingBit
<1>3. ASSUME NEW k \in Int PROVE RingBit(RingBit(a) + k) = RingBit(a + k)
  <2> DEFINE r == RingBit(a)
             p == a \div BufBits
             x == r + k
             s == RingBit(x)
             q == x \div BufBits
             y == a + k
             u == p + q
  <2>1. r \in 0..(BufBits - 1) /\ p \in Int /\ a = BufBits * p + r
    BY <1>0, DivMod DEF RingBit
  <2>2. x \in Int
    BY <2>1
  <2>3. s \in 0..(BufBits - 1) /\ q \in Int /\ x = BufBits * q + s
    <3> HIDE DEF x
    <3> QED BY <1>0, <2>2, DivMod DEF RingBit
  <2>4. y \in Int /\ u \in Int
    BY <2>1, <2>3
  <2>5. y = s + BufBits * u
    <3> HIDE DEF r, p, s, q
    <3> DEFINE v == BufBits * p
               w == BufBits * q
    <3>1. v \in Int /\ w \in Int /\ BufBits * u = v + w
      BY <1>0, <2>1, <2>3, SMTT(30)
    <3>2. a = v + r /\ x = w + s
      BY <2>1, <2>3
    <3>3. v + w = BufBits * u
      BY <3>1
    <3> HIDE DEF v, w, u
    <3>4. y = s + (v + w)
      BY <2>1, <2>3, <3>1, <3>2
    <3> QED BY <3>3, <3>4
  <2> HIDE DEF r, p, s, q, y, u, x
  <2>6. RingBit(y) = s
    BY <1>0, <2>3, <2>4, <2>5, OnlyRemainder DEF RingBit
  <2> QED BY <2>6 DEF y, s, x, r
<1> QED BY <1>1, <1>2, <1>3

LEMMA RingTwice == \A a, k \in Int : RingBit(RingBit(a) + k) = RingBit(a + k)
  BY RingPlace

\* The place of a byte is that of its first bit.
LEMMA RingByteBit ==
  ASSUME NEW i \in Int
  PROVE  RingByte(i) \in 0..(BufSize - 1) /\ RingByte(i) * ByteBits = RingBit(i * ByteBits)
<1> DEFINE r == RingByte(i)
           q == i \div BufSize
<1>0. /\ ByteBits \in Nat \ {0} /\ BufSize \in Nat \ {0} /\ BufBits \in Nat \ {0}
      /\ BufBits = BufSize * ByteBits
  BY Sizes
<1>1. r \in 0..(BufSize - 1) /\ q \in Int /\ i = BufSize * q + r
  BY <1>0, DivMod DEF RingByte
<1> HIDE DEF r, q
<1> DEFINE x == i * ByteBits
           y == r * ByteBits
<1>2. x \in Int /\ x = y + BufBits * q
  BY <1>0, <1>1, SMTT(30)
<1>3. y \in 0..(BufBits - 1)
  <2>1. y \in Nat /\ (BufSize - 1 - r) * ByteBits \in Nat
    BY <1>0, <1>1, SMTT(30)
  <2>2. (BufSize - 1 - r) * ByteBits = BufBits - ByteBits - y
    BY <1>0, <1>1, SMTT(30)
  <2> HIDE DEF y
  <2> QED BY <1>0, <2>1, <2>2
<1> HIDE DEF x, y
<1>4. x % BufBits = y
  BY <1>0, <1>1, <1>2, <1>3, OnlyRemainder
<1> QED BY <1>1, <1>4 DEF RingBit, r, x, y


\* What Sound says, field by field.
LEMMA SoundFields ==
  ASSUME NEW b, Sound(b)
  PROVE  /\ b.ValidBits \in Nat /\ b.ValidBits <= BufBits
         /\ b.WriteOffset \in 0..(BufSize - 1) /\ b.WriteOffset * ByteBits \in Nat
         /\ b.BitNdx \in 0..(BufBits - 1)
         /\ b.BitNdx = RingBit(b.WriteOffset * ByteBits + b.ValidBits)
         /\ b.Buffer \in [0..(BufBits - 1) -> Int]
         /\ DOMAIN Contents(b) = 1..b.ValidBits
         /\ Contents(b) \in Seq(Int) /\ Len(Contents(b)) = b.ValidBits
<1>1. /\ b.ValidBits \in Nat /\ b.ValidBits <= BufBits
      /\ b.WriteOffset \in 0..(BufSize - 1)
      /\ b.BitNdx \in 0..(BufBits - 1)
      /\ b.BitNdx = RingBit(b.WriteOffset * ByteBits + b.ValidBits)
      /\ b.Buffer \in [0..(BufBits - 1) -> Int]
  BY Sizes DEF Sound, BitBuf
<1>2. b.WriteOffset * ByteBits \in Nat
  <2> DEFINE w == b.WriteOffset
  <2>1. w \in Nat
    BY <1>1, Sizes
  <2> HIDE DEF w
  <2>2. w * ByteBits \in Nat
    BY <2>1, Sizes, SMTT(30)
  <2> QED BY <2>2 DEF w
<1>3. ASSUME NEW k \in 1..b.ValidBits
      PROVE  b.Buffer[RingBit(b.WriteOffset * ByteBits + k - 1)] \in Int
  <2> DEFINE a == b.WriteOffset * ByteBits + k - 1
  <2>1. a \in Int
    BY <1>1, <1>2
  <2> HIDE DEF a
  <2>2. RingBit(a) \in 0..(BufBits - 1)
    BY <2>1, RingPlace
  <2>3. b.Buffer[RingBit(a)] \in Int
    BY <1>1, <2>2
  <2> QED BY <2>3 DEF a
<1>4. /\ DOMAIN Contents(b) = 1..b.ValidBits
      /\ Contents(b) \in Seq(Int) /\ Len(Contents(b)) = b.ValidBits
  <2> DEFINE n == b.ValidBits
  <2>1. Contents(b) \in [1..n -> Int] /\ n \in Nat
    BY <1>1, <1>3 DEF Contents
  <2> HIDE DEF n
  <2>2. DOMAIN Contents(b) = 1..n /\ Contents(b) \in Seq(Int) /\ Len(Contents(b)) = n
    BY <2>1, SeqDef
  <2> QED BY <2>2 DEF n
<1> QED BY <1>1, <1>2, <1>4

\* Storing the bits of src at `a' puts them there and leaves what is less than a
\* ring minus src before them.
LEMMA OverwritePlaces ==
  ASSUME NEW buffer \in [0..(BufBits - 1) -> Int], NEW a \in Int, NEW src \in Seq(Int),
         NEW n \in Nat, n = Len(src), n <= BufBits
  PROVE  /\ Overwrite(buffer, a, src, n) \in [0..(BufBits - 1) -> Int]
         /\ \A d \in 0..(BufBits - 1) :
              Overwrite(buffer, a, src, n)[RingBit(a + d)]
                = IF d < n THEN src[d + 1] ELSE buffer[RingBit(a + d)]
<1>0. BufBits \in Nat \ {0}
  BY Sizes
<1>1. ASSUME NEW i \in 0..(BufBits - 1)
      PROVE  RingBit(i - a) \in 0..(BufBits - 1)
  <2> DEFINE c == i - a
  <2>1. c \in Int
    BY <1>0
  <2> HIDE DEF c
  <2>2. RingBit(c) \in 0..(BufBits - 1)
    BY <2>1, RingPlace
  <2> QED BY <2>2 DEF c
<1>2. Overwrite(buffer, a, src, n) \in [0..(BufBits - 1) -> Int]
  <2>1. ASSUME NEW i \in 0..(BufBits - 1)
        PROVE  (IF RingBit(i - a) < n THEN src[RingBit(i - a) + 1] ELSE buffer[i]) \in Int
    <3> DEFINE k == RingBit(i - a)
    <3>1. k \in 0..(BufBits - 1)
      BY <1>1
    <3> HIDE DEF k
    <3>2. k < n => src[k + 1] \in Int
      <4>1. SUFFICES ASSUME k < n PROVE src[k + 1] \in Int
        OBVIOUS
      <4>2. k + 1 \in 1..Len(src)
        BY <1>0, <3>1, <4>1
      <4> QED BY <4>2, ElementOfSeq
    <3>3. (IF k < n THEN src[k + 1] ELSE buffer[i]) \in Int
      BY <3>2
    <3> QED BY <3>3 DEF k
  <2> QED BY <2>1 DEF Overwrite
<1>3. ASSUME NEW d \in 0..(BufBits - 1)
      PROVE  Overwrite(buffer, a, src, n)[RingBit(a + d)]
               = IF d < n THEN src[d + 1] ELSE buffer[RingBit(a + d)]
  <2> DEFINE s == a + d
             i == RingBit(s)
             m == -a
  <2>1. s \in Int /\ m \in Int /\ s + m = d
    BY <1>0
  <2>2. i \in 0..(BufBits - 1)
    <3> HIDE DEF s
    <3> QED BY <2>1, RingPlace
  <2>3. i - a = i + m
    <3> HIDE DEF i
    <3> QED BY <1>0, <2>2
  <2>4. RingBit(i + m) = d
    <3> HIDE DEF s, m
    <3>1. RingBit(RingBit(s) + m) = RingBit(s + m)
      BY <2>1, RingTwice
    <3>2. RingBit(d) = d
      BY RingPlace
    <3> QED BY <2>1, <3>1, <3>2
  <2> HIDE DEF i, s, m
  <2>5. RingBit(i - a) = d
    BY <2>3, <2>4
  <2>6. Overwrite(buffer, a, src, n)[i] = IF d < n THEN src[d + 1] ELSE buffer[i]
    BY <2>2, <2>5 DEF Overwrite
  <2> QED BY <2>6 DEF i, s
<1> QED BY <1>2, <1>3

\* One turn of the ring.
LEMMA RingTurn ==
  ASSUME NEW x \in Int
  PROVE  RingBit(x + BufBits) = RingBit(x)
<1>0. BufBits \in Nat \ {0}
  BY Sizes
<1> DEFINE z == 0
           q == 1
<1>1. z \in 0..(BufBits - 1) /\ q \in Int /\ BufBits = z + BufBits * q /\ BufBits \in Int
  BY <1>0
<1>2. RingBit(BufBits) = z
  <2> HIDE DEF z, q
  <2> QED BY <1>0, <1>1, OnlyRemainder DEF RingBit
<1>3. RingBit(RingBit(BufBits) + x) = RingBit(BufBits + x)
  BY <1>1, RingTwice
<1>4. BufBits + x = x + BufBits /\ z + x = x
  BY <1>1
<1> HIDE DEF z
<1> QED BY <1>2, <1>3, <1>4

\* FDK_put appends.
LEMMA PutAppends ==
  ASSUME NEW b, Sound(b), NEW src \in Seq(Int), b.ValidBits + Len(src) <= BufBits
  PROVE  /\ Sound(FDKput(b, src))
         /\ FDKput(b, src).WriteOffset = b.WriteOffset
         /\ FDKput(b, src).ValidBits = b.ValidBits + Len(src)
         /\ Contents(FDKput(b, src)) = Contents(b) \o src
<1> DEFINE c == FDKput(b, src)
           n == Len(src)
           v == b.ValidBits
           w == b.WriteOffset * ByteBits
           x == b.BitNdx
           old == b.Buffer
           new == Overwrite(old, x, src, n)
           s == Contents(b)
           t == s \o src
<1>0. BufBits \in Nat \ {0}
  BY Sizes
<1>1. /\ v \in Nat /\ v <= BufBits /\ w \in Nat /\ x \in 0..(BufBits - 1)
      /\ x = RingBit(w + v) /\ old \in [0..(BufBits - 1) -> Int]
      /\ s \in Seq(Int) /\ Len(s) = v
  BY SoundFields
<1>2. n \in Nat /\ n <= BufBits /\ v + n <= BufBits
  BY <1>0, <1>1, LenProperties
<1>3. /\ c.ValidBits = v + n /\ c.WriteOffset = b.WriteOffset /\ c.ReadOffset = b.ReadOffset
      /\ c.BitNdx = RingBit(x + n) /\ c.Buffer = new
      /\ c = [b EXCEPT !.Buffer = new, !.BitNdx = RingBit(x + n), !.ValidBits = v + n]
  BY DEF FDKput, Sound, BitBuf
<1>4. /\ new \in [0..(BufBits - 1) -> Int]
      /\ \A d \in 0..(BufBits - 1) :
           new[RingBit(x + d)] = IF d < n THEN src[d + 1] ELSE old[RingBit(x + d)]
  <2>1. x \in Int
    BY <1>0, <1>1
  <2> HIDE DEF x, old
  <2> QED BY <1>1, <1>2, <2>1, OverwritePlaces
<1> HIDE DEF c, n, v, w, x, old, new, s
<1>5. \A e \in Int : RingBit(x + e) = RingBit(w + v + e)
  <2>1. w + v \in Int
    BY <1>1
  <2> QED BY <1>1, <2>1, RingTwice
<1>6. c \in BitBuf(Int)
  <2> DEFINE R == 0..(BufSize - 1)
             I == 0..(BufBits - 1)
             M == [I -> Int]
  <2>1. b \in [ValidBits : Int, ReadOffset : R, WriteOffset : R, BitNdx : I, Buffer : M]
    BY DEF Sound, BitBuf
  <2>2. v + n \in Int /\ new \in M
    BY <1>1, <1>2, <1>4
  <2>3. RingBit(x + n) \in I
    <3>1. x + n \in Int
      BY <1>0, <1>1, <1>2
    <3> DEFINE y == x + n
    <3> HIDE DEF y
    <3>2. RingBit(y) \in I
      BY <3>1, RingPlace DEF y
    <3> QED BY <3>2 DEF y
  <2> HIDE DEF R, I, M
  <2>4. c \in [ValidBits : Int, ReadOffset : R, WriteOffset : R, BitNdx : I, Buffer : M]
    BY <1>3, <2>1, <2>2, <2>3
  <2> QED BY <2>4 DEF R, I, M, BitBuf
<1>7. Sound(c)
  <2>1. w + (v + n) = w + v + n /\ v + n \in 0..BufBits /\ n \in Int
    BY <1>1, <1>2
  <2>2. c.BitNdx = RingBit(w + v + n) /\ c.WriteOffset * ByteBits = w
    BY <1>3, <1>5, <2>1 DEF w
  <2> QED BY <1>3, <1>6, <2>1, <2>2 DEF Sound
<1>8. /\ t \in Seq(Int) /\ Len(t) = v + n
      /\ \A k \in 1..(v + n) : t[k] = IF k <= v THEN s[k] ELSE src[k - v]
  BY <1>1, ConcatProperties DEF n
<1>9. /\ Contents(c) \in Seq(Int) /\ Len(Contents(c)) = v + n
      /\ \A k \in 1..(v + n) : Contents(c)[k] = new[RingBit(w + k - 1)]
  <2>1. c.WriteOffset * ByteBits = w /\ c.ValidBits = v + n /\ c.Buffer = new
    BY <1>3 DEF w
  <2> QED BY <1>7, <2>1, SoundFields DEF Contents
<1>10. \A k \in 1..v : s[k] = old[RingBit(w + k - 1)]
  BY DEF s, Contents, w, old, v
<1> HIDE DEF t
<1>11. ASSUME NEW k \in 1..(v + n) PROVE Contents(c)[k] = t[k]
  <2>1. CASE k <= v
    <3> DEFINE d == (k - 1 - v) + BufBits
    <3>1. d \in 0..(BufBits - 1) /\ ~(d < n) /\ d \in Int /\ w + k - 1 \in Int
      BY <1>0, <1>1, <1>2, <2>1
    <3>2. w + v + d = (w + k - 1) + BufBits
      BY <1>0, <1>1, <2>1
    <3>3. RingBit(x + d) = RingBit(w + k - 1)
      <4> HIDE DEF d
      <4> DEFINE y == w + k - 1
      <4>1. RingBit(x + d) = RingBit(y + BufBits)
        BY <1>5, <3>1, <3>2
      <4>2. y \in Int
        BY <3>1
      <4> HIDE DEF y
      <4>3. RingBit(y + BufBits) = RingBit(y)
        BY <4>2, RingTurn
      <4> QED BY <4>1, <4>3 DEF y
    <3> HIDE DEF d
    <3>4. new[RingBit(x + d)] = old[RingBit(x + d)]
      BY <1>4, <3>1
    <3>5. s[k] = old[RingBit(w + k - 1)] /\ t[k] = s[k]
      BY <1>1, <1>2, <1>8, <1>10, <2>1
    <3> QED BY <1>9, <3>3, <3>4, <3>5
  <2>2. CASE ~(k <= v)
    <3> DEFINE d == k - 1 - v
    <3>1. d \in 0..(BufBits - 1) /\ d < n /\ d \in Int
      BY <1>0, <1>1, <1>2, <2>2
    <3>2. w + v + d = w + k - 1 /\ d + 1 = k - v
      BY <1>0, <1>1, <2>2
    <3> HIDE DEF d
    <3>3. RingBit(x + d) = RingBit(w + k - 1)
      BY <1>5, <3>1, <3>2
    <3>4. new[RingBit(x + d)] = src[k - v]
      BY <1>4, <3>1, <3>2
    <3>5. t[k] = src[k - v]
      BY <1>8, <2>2
    <3> QED BY <1>9, <3>3, <3>4, <3>5
  <2> QED BY <2>1, <2>2
<1>12. Contents(c) = t
  BY <1>8, <1>9, <1>11, SeqEqual
<1> QED BY <1>3, <1>7, <1>12 DEF c, n, v, t, s

\* A ring whose cursors, counts and memory are given one by one is a ring.
LEMMA RingTyped ==
  ASSUME NEW b, Sound(b), NEW v \in Int, NEW w \in 0..(BufSize - 1), NEW x \in 0..(BufBits - 1)
  PROVE  /\ [b EXCEPT !.ValidBits = v, !.WriteOffset = w, !.BitNdx = x] \in BitBuf(Int)
         /\ [b EXCEPT !.ValidBits = v, !.BitNdx = x] \in BitBuf(Int)
         /\ [b EXCEPT !.ValidBits = v, !.WriteOffset = w] \in BitBuf(Int)
<1> DEFINE R == 0..(BufSize - 1)
           I == 0..(BufBits - 1)
           M == [I -> Int]
<1>1. b \in [ValidBits : Int, ReadOffset : R, WriteOffset : R, BitNdx : I, Buffer : M]
  BY DEF Sound, BitBuf
<1>2. w \in R /\ x \in I
  OBVIOUS
<1> HIDE DEF R, I, M
<1> DEFINE T == [ValidBits : Int, ReadOffset : R, WriteOffset : R, BitNdx : I, Buffer : M]
<1>3. /\ [b EXCEPT !.ValidBits = v, !.WriteOffset = w, !.BitNdx = x] \in T
      /\ [b EXCEPT !.ValidBits = v, !.BitNdx = x] \in T
      /\ [b EXCEPT !.ValidBits = v, !.WriteOffset = w] \in T
  BY <1>1, <1>2
<1> QED BY <1>3 DEF R, I, M, BitBuf

\* FDK_pushBack of a writer takes off the end.
LEMMA PushBackTakesOff ==
  ASSUME NEW b, Sound(b), NEW n \in Nat, n <= b.ValidBits
  PROVE  /\ Sound(PushBack(b, n, WRITER))
         /\ PushBack(b, n, WRITER).ValidBits = b.ValidBits - n
         /\ Contents(PushBack(b, n, WRITER)) = SubSeq(Contents(b), 1, b.ValidBits - n)
<1> DEFINE c == PushBack(b, n, WRITER)
           v == b.ValidBits
           w == b.WriteOffset * ByteBits
           x == b.BitNdx
           s == Contents(b)
           m == v - n
           y == RingBit(w + m)
           t == SubSeq(s, 1, m)
<1>0. BufBits \in Nat \ {0}
  BY Sizes
<1>1. /\ v \in Nat /\ v <= BufBits /\ w \in Nat /\ x \in 0..(BufBits - 1)
      /\ x = RingBit(w + v) /\ s \in Seq(Int) /\ Len(s) = v /\ DOMAIN s = 1..v
      /\ b.WriteOffset \in 0..(BufSize - 1)
  BY SoundFields
<1>2. m \in 0..v /\ m \in 0..BufBits /\ m \in Int
  BY <1>0, <1>1
<1>3. RingBit(x - n) = y /\ y \in 0..(BufBits - 1)
  <2> DEFINE a == w + v
             k == -n
             d == w + m
  <2>1. a \in Int /\ k \in Int /\ d \in Int /\ a + k = d /\ x - n = x + k
    <3>1. x \in Int
      BY <1>0, <1>1
    <3> HIDE DEF x, v, w
    <3> QED BY <1>0, <1>1, <1>2, <3>1
  <2> HIDE DEF a, k, d
  <2>2. RingBit(RingBit(a) + k) = RingBit(a + k) /\ RingBit(d) \in 0..(BufBits - 1)
    BY <2>1, RingTwice, RingPlace
  <2> QED BY <1>1, <2>1, <2>2 DEF a, d
<1>4. c = [b EXCEPT !.ValidBits = m, !.BitNdx = y]
  <2>1. c = [b EXCEPT !.ValidBits = v - n, !.BitNdx = RingBit(x - n)]
    <3>1. WRITER # READER
      BY DEF WRITER, READER
    <3> QED BY <3>1 DEF PushBack
  <2> HIDE DEF c, y
  <2> QED BY <1>3, <2>1
<1> HIDE DEF c, m, y
<1>5. /\ c.ValidBits = m /\ c.BitNdx = y /\ c.WriteOffset = b.WriteOffset /\ c.Buffer = b.Buffer
  BY <1>4 DEF Sound, BitBuf
<1>6. Sound(c)
  <2>1. c \in BitBuf(Int)
    BY <1>1, <1>2, <1>3, <1>4, RingTyped
  <2> QED BY <1>2, <1>5, <2>1 DEF Sound, y
<1>7. Contents(c) \in Seq(Int) /\ Len(Contents(c)) = m
  BY <1>5, <1>6, SoundFields
<1>8. t \in Seq(Int) /\ Len(t) = m /\ \A k \in 1..m : t[k] = s[k]
  <2> HIDE DEF s
  <2>1. \A k \in 1..m : s[k] \in Int
    BY <1>1, <1>2, ElementOfSeq
  <2>2. 1 \in Int /\ m - 1 + 1 = m /\ (IF 1 <= m THEN m - 1 + 1 ELSE 0) = m
    BY <1>2
  <2>3. /\ t \in Seq(Int) /\ Len(t) = IF 1 <= m THEN m - 1 + 1 ELSE 0
        /\ \A k \in 1..(m - 1 + 1) : t[k] = s[1 + k - 1]
    BY <1>2, <2>1, SubSeqProperties
  <2>4. \A k \in 1..m : 1 + k - 1 = k
    BY <1>2
  <2> HIDE DEF t
  <2> QED BY <2>2, <2>3, <2>4
<1>9. ASSUME NEW k \in 1..m PROVE Contents(c)[k] = t[k]
  <2>1. k \in 1..v
    BY <1>1, <1>2
  <2>2. Contents(c)[k] = b.Buffer[RingBit(w + k - 1)] /\ s[k] = b.Buffer[RingBit(w + k - 1)]
    BY <1>5, <2>1 DEF Contents
  <2> QED BY <1>8, <2>2
<1> HIDE DEF s, t
<1>10. Contents(c) = t
  BY <1>7, <1>8, <1>9, SeqEqual
<1> QED BY <1>5, <1>6, <1>10 DEF c, m, t, s

\* FDK_Fetch takes off the front.
LEMMA FetchTakesOff ==
  ASSUME NEW b, Sound(b), NEW n \in Nat, n * ByteBits <= b.ValidBits
  PROVE  /\ Sound(Fetch(b, n))
         /\ Fetch(b, n).ValidBits = b.ValidBits - n * ByteBits
         /\ FetchedBits(b, n) \in Seq(Int)
         /\ Contents(b) = FetchedBits(b, n) \o Contents(Fetch(b, n))
<1> DEFINE c == Fetch(b, n)
           v == b.ValidBits
           o == b.WriteOffset
           w == o * ByteBits
           h == n * ByteBits
           m == v - h
           s == Contents(b)
           f == FetchedBits(b, n)
           p == RingByte(o + n)
           t == f \o Contents(c)
<1>0. BufBits \in Nat \ {0}
  BY Sizes
<1>1. /\ v \in Nat /\ v <= BufBits /\ w \in Nat /\ b.BitNdx \in 0..(BufBits - 1)
      /\ b.BitNdx = RingBit(w + v) /\ s \in Seq(Int) /\ Len(s) = v /\ DOMAIN s = 1..v
      /\ o \in 0..(BufSize - 1)
  BY SoundFields
<1>2. h \in Nat /\ h <= v /\ m \in 0..v /\ m \in 0..BufBits /\ m \in Int
  <2>1. h \in Nat /\ h <= v
    BY Sizes, SMTT(30)
  <2> HIDE DEF h
  <2> QED BY <1>0, <1>1, <2>1
<1>3. p \in 0..(BufSize - 1) /\ p * ByteBits = RingBit(w + h)
  <2> DEFINE i == o + n
  <2>1. o \in Nat /\ i \in Int
    BY <1>1, Sizes
  <2>2. i * ByteBits = w + h
    <3> HIDE DEF o
    <3> QED BY <2>1, Sizes, SMTT(30)
  <2>3. RingByte(i) \in 0..(BufSize - 1) /\ RingByte(i) * ByteBits = RingBit(i * ByteBits)
    <3> HIDE DEF i
    <3> QED BY <2>1, RingByteBit
  <2> QED BY <2>2, <2>3
<1>4. c = [b EXCEPT !.ValidBits = m, !.WriteOffset = p]
  BY DEF Fetch
<1> HIDE DEF c, m, p, w, h
<1>5. c.ValidBits = m /\ c.BitNdx = b.BitNdx /\ c.WriteOffset = p /\ c.Buffer = b.Buffer
  BY <1>4 DEF Sound, BitBuf
<1>6. \A k \in Int : RingBit(p * ByteBits + k) = RingBit(w + h + k)
  <2>1. w + h \in Int
    BY <1>1, <1>2
  <2> QED BY <1>3, <2>1, RingTwice
<1>7. Sound(c)
  <2>1. c \in BitBuf(Int)
    BY <1>1, <1>2, <1>3, <1>4, RingTyped
  <2>2. w + h + m = w + v
    BY <1>1, <1>2 DEF m
  <2>3. RingBit(p * ByteBits + m) = RingBit(w + v)
    BY <1>2, <1>6, <2>2
  <2> QED BY <1>1, <1>2, <1>5, <2>1, <2>3 DEF Sound
<1>8. Contents(c) \in Seq(Int) /\ Len(Contents(c)) = m
  BY <1>5, <1>7, SoundFields
<1>9. s = [k \in 1..v |-> b.Buffer[RingBit(w + k - 1)]]
  BY DEF Contents, w
<1>10. f = [k \in 1..h |-> b.Buffer[RingBit(w + k - 1)]]
  BY DEF FetchedBits, w, h
<1>11. Contents(c) = [k \in 1..m |-> b.Buffer[RingBit(p * ByteBits + k - 1)]]
  BY <1>5 DEF Contents
<1>12. f \in Seq(Int) /\ Len(f) = h
  <2>1. \A k \in 1..h : s[k] \in Int /\ k \in 1..v
    <3> HIDE DEF s
    <3> QED BY <1>1, <1>2, ElementOfSeq
  <2>2. \A k \in 1..h : f[k] = s[k]
    BY <1>9, <1>10, <2>1
  <2>3. f \in [1..h -> Int]
    BY <1>10, <2>1, <2>2
  <2> HIDE DEF f, s
  <2> QED BY <1>2, <2>3, SeqDef
<1> HIDE DEF f, s
<1>13. /\ t \in Seq(Int) /\ Len(t) = h + m
       /\ \A k \in 1..(h + m) : t[k] = IF k <= h THEN f[k] ELSE Contents(c)[k - h]
  BY <1>8, <1>12, ConcatProperties
<1> HIDE DEF t
<1>14. h + m = v
  BY <1>1, <1>2 DEF m
<1>15. ASSUME NEW k \in 1..v PROVE s[k] = t[k]
  <2>1. CASE k <= h
    <3>1. k \in 1..h
      BY <1>2, <2>1
    <3> QED BY <1>9, <1>10, <1>13, <1>14, <2>1, <3>1
  <2>2. CASE ~(k <= h)
    <3> DEFINE j == k - h
               e == j - 1
    <3>1. j \in 1..m /\ e \in Int
      BY <1>1, <1>2, <2>2 DEF m
    <3>2. t[k] = Contents(c)[j]
      BY <1>13, <1>14, <2>2
    <3>3. w + h + e = w + k - 1 /\ \A q \in Int : q + j - 1 = q + e
      BY <1>1, <1>2
    <3>4. RingBit(p * ByteBits + e) = RingBit(w + k - 1)
      BY <1>6, <3>1, <3>3
    <3>5. p * ByteBits + j - 1 = p * ByteBits + e
      <4> DEFINE q == p * ByteBits
      <4>1. q \in Int
        BY <1>3, Sizes
      <4> HIDE DEF q
      <4>2. q + j - 1 = q + e
        BY <3>3, <4>1
      <4> QED BY <4>2 DEF q
    <3> HIDE DEF j, e
    <3>6. Contents(c)[j] = b.Buffer[RingBit(p * ByteBits + e)]
      BY <1>11, <3>1, <3>5
    <3> QED BY <1>9, <3>2, <3>4, <3>6
  <2> QED BY <2>1, <2>2
<1>16. s = t
  BY <1>1, <1>13, <1>14, <1>15, SeqEqual
<1> QED BY <1>5, <1>7, <1>12, <1>16 DEF c, m, h, s, t, f

\* FDK_Fetch never hands out more than what is stored.
LEMMA FetchBytesStored ==
  ASSUME NEW b, Sound(b), NEW wanted \in Nat
  PROVE  /\ FetchBytes(b, wanted) \in Nat
         /\ FetchBytes(b, wanted) * ByteBits <= b.ValidBits
<1> DEFINE v == b.ValidBits
           d == v \div ByteBits
           n == FetchBytes(b, wanted)
           z == 0
<1>0. /\ BufBits \in Nat \ {0} /\ ByteBits \in Nat \ {0}
      /\ UintRange \in Nat /\ 2 * BufBits < UintRange
  BY Sizes, BufferAssumption
<1>1. v \in Nat /\ v <= BufBits
  BY SoundFields
<1> HIDE DEF v
<1>2. AsUint(v) = v
  <2>1. UintRange \in Nat \ {0} /\ v \in 0..(UintRange - 1) /\ z \in Int /\ v = v + UintRange * z
    BY <1>0, <1>1
  <2> HIDE DEF z
  <2> QED BY <2>1, OnlyRemainder DEF AsUint
<1>3. d \in Nat /\ v = ByteBits * d + (v % ByteBits) /\ v % ByteBits \in Nat
  <2>1. d \in Int /\ v % ByteBits \in 0..(ByteBits - 1) /\ v = ByteBits * d + (v % ByteBits)
    BY <1>0, <1>1, DivMod
  <2>2. d \in Nat
    BY <1>0, <1>1, SMTT(30)
  <2> QED BY <1>0, <2>1, <2>2
<1>4. n = Smaller(d, wanted)
  BY <1>2 DEF FetchBytes, v
<1> HIDE DEF d, n
<1>5. n \in Nat /\ n <= d
  BY <1>3, <1>4 DEF Smaller
<1>6. n * ByteBits <= ByteBits * d /\ n * ByteBits \in Int /\ ByteBits * d \in Int
  <2>1. (d - n) * ByteBits >= 0 /\ (d - n) * ByteBits = ByteBits * d - n * ByteBits
    BY <1>0, <1>3, <1>5, SMTT(30)
  <2>2. n * ByteBits \in Int /\ ByteBits * d \in Int
    BY <1>0, <1>3, <1>5
  <2> QED BY <2>1, <2>2
<1> DEFINE x == n * ByteBits
           y == ByteBits * d
           r == v % ByteBits
<1>7. x \in Int /\ y \in Int /\ r \in Nat /\ x <= y /\ v = y + r
  BY <1>3, <1>6
<1> HIDE DEF x, y, r
<1>8. x <= v
  BY <1>1, <1>7
<1> QED BY <1>5, <1>8 DEF x, n, v

\* Storing at a position of a ring of which nothing was fetched replaces the bits
\* from there on.
LEMMA OverwriteReplaces ==
  ASSUME NEW b, Sound(b), b.WriteOffset = 0, NEW at \in Nat, NEW src \in Seq(Int),
         at + Len(src) <= b.ValidBits
  PROVE  LET c == [b EXCEPT !.Buffer = Overwrite(b.Buffer, at, src, Len(src))]
         IN  /\ Sound(c)
             /\ c.ValidBits = b.ValidBits
             /\ \A k \in 1..b.ValidBits :
                  Contents(c)[k] = IF k \in (at + 1)..(at + Len(src))
                                   THEN src[k - at] ELSE Contents(b)[k]
<1> DEFINE n == Len(src)
           old == b.Buffer
           new == Overwrite(old, at, src, n)
           c == [b EXCEPT !.Buffer = new]
           v == b.ValidBits
           z == 0
<1>0. BufBits \in Nat \ {0}
  BY Sizes
<1>1. v \in Nat /\ v <= BufBits /\ old \in [0..(BufBits - 1) -> Int] /\ b.WriteOffset * ByteBits = z
  <2>1. 0 * ByteBits = z
    BY Sizes
  <2> QED BY <2>1, SoundFields
<1>2. n \in Nat /\ n <= BufBits /\ at + n <= v
  <2> HIDE DEF v
  <2> QED BY <1>0, <1>1, LenProperties DEF v
<1>3. /\ new \in [0..(BufBits - 1) -> Int]
      /\ \A d \in 0..(BufBits - 1) :
           new[RingBit(at + d)] = IF d < n THEN src[d + 1] ELSE old[RingBit(at + d)]
  <2>1. at \in Int /\ n = Len(src)
    OBVIOUS
  <2> HIDE DEF old, n
  <2> QED BY <1>1, <1>2, <2>1, OverwritePlaces
<1> HIDE DEF new
<1>4. /\ c.ValidBits = v /\ c.BitNdx = b.BitNdx /\ c.WriteOffset = b.WriteOffset
      /\ c.Buffer = new
  BY DEF Sound, BitBuf
<1>5. Sound(c)
  <2> DEFINE R == 0..(BufSize - 1)
             I == 0..(BufBits - 1)
             M == [I -> Int]
  <2>1. b \in [ValidBits : Int, ReadOffset : R, WriteOffset : R, BitNdx : I, Buffer : M]
    BY DEF Sound, BitBuf
  <2>2. new \in M
    BY <1>3
  <2> HIDE DEF R, I, M
  <2>3. c \in [ValidBits : Int, ReadOffset : R, WriteOffset : R, BitNdx : I, Buffer : M]
    BY <2>1, <2>2
  <2>4. c \in BitBuf(Int)
    BY <2>3 DEF R, I, M, BitBuf
  <2> QED BY <1>4, <2>4 DEF Sound
<1> HIDE DEF c
<1>6. /\ Contents(c) = [k \in 1..v |-> new[RingBit(z + k - 1)]]
      /\ Contents(b) = [k \in 1..v |-> old[RingBit(z + k - 1)]]
  BY <1>1, <1>4 DEF Contents
<1> HIDE DEF old, v
<1>7. ASSUME NEW k \in 1..v
      PROVE  Contents(c)[k] = IF k \in (at + 1)..(at + n) THEN src[k - at] ELSE Contents(b)[k]
  <2> DEFINE p == z + k - 1
  <2>1. Contents(c)[k] = new[RingBit(p)] /\ Contents(b)[k] = old[RingBit(p)]
    BY <1>6
  <2>2. CASE at < k
    <3> DEFINE d == k - 1 - at
    <3>1. d \in 0..(BufBits - 1) /\ at + d = p /\ d + 1 = k - at
          /\ (d < n <=> k \in (at + 1)..(at + n))
      BY <1>0, <1>1, <1>2, <2>2
    <3> HIDE DEF d, p, new
    <3> QED BY <1>3, <2>1, <3>1
  <2>3. CASE ~(at < k)
    <3> DEFINE d == k - 1 - at + BufBits
    <3>1. d \in 0..(BufBits - 1) /\ at + d = p + BufBits /\ ~(d < n) /\ p \in Int
          /\ k \notin (at + 1)..(at + n)
      BY <1>0, <1>1, <1>2, <2>3
    <3> HIDE DEF d, p
    <3>2. RingBit(at + d) = RingBit(p)
      BY <3>1, RingTurn
    <3>3. new[RingBit(at + d)] = old[RingBit(at + d)]
      BY <1>3, <3>1
    <3> QED BY <2>1, <3>1, <3>2, <3>3
  <2> QED BY <2>2, <2>3
<1> QED BY <1>4, <1>5, <1>7 DEF c, n, v, new, old

\* A second writer stores where it was pushed to.
LEMMA SecondWriter ==
  ASSUME NEW memory, NEW at \in 0..(BufBits - 1), NEW src
  PROVE  FDKput(PushForward(InitBitBuffer(memory, 0), at, WRITER), src).Buffer
           = Overwrite(memory, at, src, Len(src))
<1> DEFINE second == PushForward(InitBitBuffer(memory, 0), at, WRITER)
<1>1. at \in Int /\ 0 + at = at /\ RingBit(at) = at
  BY Sizes, RingPlace
<1>2. second.BitNdx = at /\ second.Buffer = memory
  BY <1>1 DEF PushForward, InitBitBuffer
<1>3. FDKput(second, src).Buffer = Overwrite(second.Buffer, second.BitNdx, src, Len(src))
  <2>1. DOMAIN second = {"ValidBits", "ReadOffset", "WriteOffset", "BitNdx", "Buffer"}
    BY DEF PushForward, InitBitBuffer
  <2> HIDE DEF second
  <2> QED BY <2>1 DEF FDKput
<1> QED BY <1>2, <1>3

-----------------------------------------------------------------------------
\* The n bits in the cache.
LEMMA CachedBits ==
  ASSUME NEW word \in Seq(Int), NEW n \in 0..Len(word)
  PROVE  /\ Cached(word, n) \in Seq(Int) /\ Len(Cached(word, n)) = n
         /\ \A k \in 1..n : Cached(word, n)[k] = word[Len(word) - n + k]
<1> DEFINE l == Len(word)
           i == l - n + 1
           s == SubSeq(word, i, l)
<1>1. l \in Nat /\ n \in Nat /\ n <= l /\ i \in Int /\ l - i + 1 = n
  BY LenProperties
<1>2. \A k \in i..l : word[k] \in Int
  <2>1. \A k \in i..l : k \in 1..l
    BY <1>1
  <2> QED BY <2>1, ElementOfSeq
<1> HIDE DEF l, i
<1>3. /\ s \in Seq(Int) /\ Len(s) = (IF i <= l THEN l - i + 1 ELSE 0)
      /\ \A k \in 1..(l - i + 1) : s[k] = word[i + k - 1]
  BY <1>1, <1>2, SubSeqProperties
<1>4. (IF i <= l THEN l - i + 1 ELSE 0) = n /\ \A k \in 1..n : i + k - 1 = l - n + k
  BY <1>1 DEF i
<1>5. Cached(word, n) = s
  BY DEF Cached, s, i, l
<1> HIDE DEF s
<1> QED BY <1>1, <1>3, <1>4, <1>5 DEF l

LEMMA SerialBits ==
  ASSUME written \in Nat, NEW n \in Nat
  PROVE  Serials(n) \in Seq(Int) /\ Len(Serials(n)) = n
<1>1. Serials(n) \in [1..n -> Int]
  BY DEF Serials
<1> HIDE DEF Serials
<1> QED BY <1>1, SeqDef

\* StoredInOrder, with the stored bits by their name.
LEMMA InOrder ==
  StoredInOrder <=> log = (fetched \o Contents(hBitBuf)) \o Cached(CacheWord, BitsInCache)
BY DEF StoredInOrder, Contents

\* FDKsyncCache stores the cached bits behind the others.
LEMMA SyncStores ==
  ASSUME WriterInv
  PROVE  /\ Sound(Synced)
         /\ Synced.WriteOffset = hBitBuf.WriteOffset
         /\ Synced.ValidBits = hBitBuf.ValidBits + BitsInCache
         /\ log = fetched \o Contents(Synced)
         /\ Contents(Synced) \in Seq(Int)
         /\ Len(Contents(Synced)) = Synced.ValidBits
         /\ Waiting = Synced.ValidBits /\ Waiting \in 0..BufBits
         /\ Len(log) = Len(fetched) + Synced.ValidBits
<1> DEFINE c == Cached(CacheWord, BitsInCache)
           s == Contents(hBitBuf)
<1>1. c \in Seq(Int) /\ Len(c) = BitsInCache
  <2>1. BitsInCache \in 0..Len(CacheWord) /\ CacheWord \in Seq(Int)
    BY Sizes, LenProperties DEF WriterInv, CacheTyped
  <2> QED BY <2>1, CachedBits
<1>2. hBitBuf.ValidBits + Len(c) <= BufBits /\ Sound(hBitBuf)
  BY <1>1 DEF WriterInv, RoomLeft
<1> HIDE DEF c
<1>3. /\ Sound(Synced) /\ Synced.WriteOffset = hBitBuf.WriteOffset
      /\ Synced.ValidBits = hBitBuf.ValidBits + BitsInCache
      /\ Contents(Synced) = s \o c
  BY <1>1, <1>2, PutAppends DEF Synced, c
<1>4. s \in Seq(Int) /\ fetched \in Seq(Int)
  BY <1>2, SoundFields DEF WriterInv, HistoryTyped
<1> HIDE DEF s
<1>5. log = (fetched \o s) \o c
  BY InOrder DEF WriterInv, s, c
<1>6. log = fetched \o Contents(Synced)
  BY <1>1, <1>3, <1>4, <1>5, ConcatAssociative
<1> DEFINE u == Contents(Synced)
           m == Synced.ValidBits
<1>7. u \in Seq(Int) /\ Len(u) = m /\ m \in Nat /\ m <= BufBits
  BY <1>3, SoundFields
<1> HIDE DEF u, m
<1>8. Len(log) = Len(fetched) + m /\ Len(fetched) \in Nat
  <2>1. Len(fetched \o u) = Len(fetched) + Len(u)
    BY <1>4, <1>7, ConcatProperties
  <2> QED BY <1>4, <1>6, <1>7, <2>1, LenProperties DEF u
<1>9. Waiting = m /\ Waiting \in 0..BufBits
  BY <1>7, <1>8, Sizes DEF Waiting
<1> QED BY <1>3, <1>6, <1>7, <1>8, <1>9 DEF u, m

\* A call that leaves the cache empty and the ring sound keeps the invariant when
\* the ring holds what the history says.
LEMMA EmptyCacheKeepsInv ==
  ASSUME Sound(hBitBuf'), CacheEmpty, HistoryTyped',
         log' = fetched' \o Contents(hBitBuf')
  PROVE  WriterInv'
<1> DEFINE e == << >>
           z == 0
<1>1. CacheWord' = e /\ BitsInCache' = z
  BY DEF CacheEmpty
<1>2. e \in Seq(Int) /\ Len(e) = z /\ z \in 0..Len(e)
  BY EmptySeq
<1>3. Cached(e, z) = << >>
  <2>1. Cached(e, z) \in Seq(Int) /\ Len(Cached(e, z)) = z
    <3> HIDE DEF e, z
    <3> QED BY <1>2, CachedBits
  <2> QED BY <2>1, EmptySeq
<1>4. CacheTyped'
  <2>1. z \in 0..CacheBits /\ z < CacheBits /\ z <= Len(e)
    BY <1>2, Sizes
  <2> HIDE DEF e, z
  <2> QED BY <1>1, <1>2, <2>1 DEF CacheTyped
<1> HIDE DEF e, z
<1>5. RoomLeft'
  <2>1. hBitBuf'.ValidBits \in Nat /\ hBitBuf'.ValidBits <= BufBits
    BY SoundFields
  <2> QED BY <1>1, <2>1 DEF RoomLeft, z
<1>6. StoredInOrder'
  <2> DEFINE t == fetched' \o Contents(hBitBuf')
  <2>1. t \in Seq(Int)
    <3>1. fetched' \in Seq(Int) /\ Contents(hBitBuf') \in Seq(Int)
      BY SoundFields DEF HistoryTyped
    <3> QED BY <3>1, ConcatProperties
  <2> HIDE DEF t
  <2>2. t \o << >> = t
    BY <2>1, ConcatEmptySeq
  <2>3. log' = (fetched' \o Contents(hBitBuf')) \o Cached(CacheWord', BitsInCache')
    BY <1>1, <1>3, <2>2 DEF t
  <2> QED BY <2>3 DEF StoredInOrder, Contents
<1> QED BY <1>4, <1>5, <1>6 DEF WriterInv

-----------------------------------------------------------------------------
LEMMA GetValidBitsKeepsInv ==
  ASSUME WriterInv, GetValidBits
  PROVE  WriterInv'
<1>1. hBitBuf' = Synced /\ log' = log /\ written' = written /\ fetched' = fetched
      /\ anchor' = Synced.ValidBits /\ CacheEmpty
  BY DEF GetValidBits
<1>2. Sound(hBitBuf') /\ log' = fetched' \o Contents(hBitBuf')
  BY <1>1, SyncStores
<1>3. HistoryTyped'
  <2>1. anchor' \in Int
    BY <1>1, SyncStores, SoundFields
  <2> QED BY <1>1, <2>1 DEF WriterInv, HistoryTyped
<1> QED BY <1>1, <1>2, <1>3, EmptyCacheKeepsInv

LEMMA PushBackKeepsInv ==
  ASSUME WriterInv, NEW n \in 1..BufBits, PushBackBits(n)
  PROVE  WriterInv'
<1> DEFINE s == Contents(Synced)
           v == Synced.ValidBits
           l == Len(fetched)
           back == SubSeq(s, 1, v - n)
           cut == SubSeq(log, 1, Len(log) - n)
           t == fetched \o back
<1>1. hBitBuf' = PushBack(Synced, n, WRITER) /\ CacheEmpty /\ log' = cut
      /\ written' = written /\ anchor' = anchor /\ fetched' = fetched /\ n <= Waiting
  BY DEF PushBackBits
<1>2. /\ Sound(Synced) /\ n \in Nat /\ n <= v /\ v \in Nat
      /\ s \in Seq(Int) /\ Len(s) = v /\ log = fetched \o s
      /\ Len(log) = l + v /\ l \in Nat
      /\ log \in Seq(Int) /\ fetched \in Seq(Int)
  <2>1. log \in Seq(Int) /\ fetched \in Seq(Int)
    BY DEF WriterInv, HistoryTyped
  <2>2. l \in Nat
    BY <2>1, LenProperties
  <2>3. /\ Sound(Synced) /\ Waiting = v /\ Waiting \in 0..BufBits /\ s \in Seq(Int)
        /\ Len(s) = v /\ log = fetched \o s /\ Len(log) = l + v
    BY SyncStores
  <2> HIDE DEF s, v, l
  <2>4. n \in Nat /\ n <= v /\ v \in Nat
    BY <1>1, <2>3, Sizes
  <2> QED BY <2>1, <2>2, <2>3, <2>4
<1>3. Sound(hBitBuf') /\ Contents(hBitBuf') = back
  BY <1>1, <1>2, PushBackTakesOff
<1> HIDE DEF s, v, l
<1>4. back \in Seq(Int) /\ Len(back) = v - n /\ \A k \in 1..(v - n) : back[k] = s[k]
  <2>1. \A k \in 1..(v - n) : s[k] \in Int
    BY <1>2, ElementOfSeq
  <2>2. v - n \in Int /\ v - n \in Nat
    BY <1>2
  <2>3. /\ back \in Seq(Int) /\ Len(back) = (IF 1 <= v - n THEN v - n - 1 + 1 ELSE 0)
        /\ \A k \in 1..(v - n - 1 + 1) : back[k] = s[1 + k - 1]
    BY <2>1, <2>2, SubSeqProperties
  <2> HIDE DEF back
  <2> QED BY <2>2, <2>3
<1>5. cut \in Seq(Int) /\ Len(cut) = l + v - n /\ \A k \in 1..(l + v - n) : cut[k] = log[k]
  <2> DEFINE m == Len(log) - n
  <2>0. m = l + v - n /\ m \in Nat
    BY <1>2
  <2>1. \A k \in 1..m : log[k] \in Int
    BY <1>2, <2>0, ElementOfSeq
  <2> HIDE DEF m
  <2>2. m \in Int /\ m - 1 + 1 = m /\ \A k \in 1..m : 1 + k - 1 = k
    BY <2>0
  <2>3. /\ cut \in Seq(Int) /\ Len(cut) = (IF 1 <= m THEN m - 1 + 1 ELSE 0)
        /\ \A k \in 1..(m - 1 + 1) : cut[k] = log[1 + k - 1]
    BY <2>1, <2>2, SubSeqProperties DEF m
  <2> HIDE DEF cut
  <2> QED BY <2>0, <2>2, <2>3
<1> HIDE DEF back, cut
<1>6. /\ t \in Seq(Int) /\ Len(t) = l + (v - n)
      /\ \A k \in 1..(l + (v - n)) : t[k] = IF k <= l THEN fetched[k] ELSE back[k - l]
  <2>1. /\ t \in Seq(Int) /\ Len(t) = Len(fetched) + Len(back)
        /\ \A k \in 1..(Len(fetched) + Len(back)) :
             t[k] = IF k <= Len(fetched) THEN fetched[k] ELSE back[k - Len(fetched)]
    <3>1. fetched \in Seq(Int) /\ back \in Seq(Int)
      BY <1>2, <1>4
    <3> QED BY <3>1, ConcatProperties
  <2>2. Len(fetched) = l /\ Len(back) = v - n
    BY <1>4 DEF l
  <2> HIDE DEF t
  <2> QED BY <2>1, <2>2
<1>7. \A k \in 1..(l + v) : log[k] = IF k <= l THEN fetched[k] ELSE s[k - l]
  BY <1>2, ConcatProperties DEF l
<1> HIDE DEF t
<1>8. ASSUME NEW k \in 1..(l + v - n) PROVE cut[k] = t[k]
  <2>1. k \in 1..(l + v) /\ k \in 1..(l + (v - n))
    BY <1>2
  <2>2. cut[k] = IF k <= l THEN fetched[k] ELSE s[k - l]
    BY <1>5, <1>7, <2>1
  <2>3. ~(k <= l) => back[k - l] = s[k - l]
    <3>1. ~(k <= l) => k - l \in 1..(v - n)
      BY <1>2
    <3> QED BY <1>4, <3>1
  <2> QED BY <1>6, <2>1, <2>2, <2>3
<1>9. cut = t
  <2>1. l + (v - n) = l + v - n
    BY <1>2
  <2> QED BY <1>5, <1>6, <1>8, <2>1, SeqEqual
<1>10. HistoryTyped'
  BY <1>1, <1>5 DEF WriterInv, HistoryTyped
<1> QED BY <1>1, <1>3, <1>9, <1>10, EmptyCacheKeepsInv DEF t

LEMMA ByteAlignKeepsInv ==
  ASSUME WriterInv, ByteAlign
  PROVE  WriterInv'
<1> DEFINE u == Synced.ValidBits - anchor
           gap == (ByteBits - (u % ByteBits)) % ByteBits
           zeros == [k \in 1..gap |-> Zero]
           s == Contents(Synced)
<1>1. hBitBuf' = FDKput(Synced, zeros) /\ CacheEmpty /\ log' = log \o zeros
      /\ written' = written /\ anchor' = anchor /\ fetched' = fetched /\ Waiting + gap <= BufBits
  BY DEF ByteAlign, Fits
<1>2. /\ Sound(Synced) /\ Synced.ValidBits \in Nat /\ Waiting = Synced.ValidBits
      /\ s \in Seq(Int) /\ log = fetched \o s
      /\ log \in Seq(Int) /\ fetched \in Seq(Int) /\ written \in Nat /\ anchor \in Int
  BY SyncStores, SoundFields DEF WriterInv, HistoryTyped
<1>3. gap \in Nat
  <2>0. ByteBits \in Nat \ {0}
    BY Sizes
  <2>1. u \in Int
    BY <1>2
  <2> HIDE DEF u
  <2> DEFINE x == ByteBits - (u % ByteBits)
  <2>2. x \in Int
    BY <2>0, <2>1, DivMod
  <2>3. gap = x % ByteBits
    OBVIOUS
  <2> HIDE DEF x, gap
  <2> QED BY <2>0, <2>2, <2>3, DivMod
<1> HIDE DEF u, gap, s
<1>4. zeros \in Seq(Int) /\ Len(zeros) = gap
  <2>1. zeros \in [1..gap -> Int]
    BY DEF Zero
  <2> HIDE DEF zeros
  <2> QED BY <1>3, <2>1, SeqDef
<1> HIDE DEF zeros
<1>5. Synced.ValidBits + Len(zeros) <= BufBits
  BY <1>1, <1>2, <1>4
<1>6. Sound(hBitBuf') /\ Contents(hBitBuf') = s \o zeros
  BY <1>1, <1>2, <1>4, <1>5, PutAppends DEF s
<1>7. log' = fetched' \o Contents(hBitBuf')
  <2>1. (fetched \o s) \o zeros = fetched \o (s \o zeros)
    BY <1>2, <1>4, ConcatAssociative
  <2> QED BY <1>1, <1>2, <1>6, <2>1
<1>8. HistoryTyped'
  BY <1>1, <1>2, <1>4, ConcatProperties DEF HistoryTyped
<1> QED BY <1>1, <1>6, <1>7, <1>8, EmptyCacheKeepsInv

LEMMA FetchKeepsInv ==
  ASSUME WriterInv, NEW wanted \in 1..BufSize, FetchBuffer(wanted)
  PROVE  WriterInv'
<1> DEFINE n == FetchBytes(Synced, wanted)
           f == FetchedBits(Synced, n)
<1>1. hBitBuf' = Fetch(Synced, n) /\ CacheEmpty /\ fetched' = fetched \o f
      /\ log' = log /\ written' = written /\ anchor' = anchor - n * ByteBits
  BY DEF FetchBuffer
<1>2. /\ Sound(Synced) /\ log = fetched \o Contents(Synced)
      /\ log \in Seq(Int) /\ fetched \in Seq(Int) /\ written \in Nat /\ anchor \in Int
  BY SyncStores DEF WriterInv, HistoryTyped
<1>3. n \in Nat /\ n * ByteBits <= Synced.ValidBits
  <2>1. wanted \in Nat
    BY Sizes
  <2> QED BY <1>2, <2>1, FetchBytesStored
<1> HIDE DEF n
<1>4. Sound(hBitBuf') /\ f \in Seq(Int) /\ Contents(Synced) = f \o Contents(hBitBuf')
  BY <1>1, <1>2, <1>3, FetchTakesOff
<1> HIDE DEF f
<1>5. Contents(hBitBuf') \in Seq(Int)
  BY <1>4, SoundFields
<1>6. log' = fetched' \o Contents(hBitBuf')
  <2>1. (fetched \o f) \o Contents(hBitBuf') = fetched \o (f \o Contents(hBitBuf'))
    BY <1>2, <1>4, <1>5, ConcatAssociative
  <2> QED BY <1>1, <1>2, <1>4, <2>1
<1>7. HistoryTyped'
  <2>1. anchor' \in Int
    BY <1>1, <1>2, <1>3, Sizes
  <2> QED BY <1>1, <1>2, <1>4, <2>1, ConcatProperties DEF HistoryTyped
<1> QED BY <1>1, <1>4, <1>6, <1>7, EmptyCacheKeepsInv

LEMMA ConcatThree ==
  ASSUME NEW a \in Seq(Int), NEW b \in Seq(Int), NEW c \in Seq(Int)
  PROVE  LET p == Len(a)
             q == Len(b)
             r == Len(c)
             e == (a \o b) \o c
         IN  /\ e \in Seq(Int) /\ Len(e) = p + q + r
             /\ \A k \in 1..(p + q + r) :
                  e[k] = IF k <= p THEN a[k] ELSE IF k <= p + q THEN b[k - p] ELSE c[k - p - q]
<1> DEFINE p == Len(a)
           q == Len(b)
           r == Len(c)
<1>0. p \in Nat /\ q \in Nat /\ r \in Nat /\ Len(a) = p /\ Len(b) = q /\ Len(c) = r
  BY LenProperties
<1> HIDE DEF p, q, r
<1> DEFINE d == a \o b
           e == d \o c
<1>1. d \in Seq(Int) /\ Len(d) = p + q /\ \A k \in 1..(p + q) : d[k] = IF k <= p THEN a[k] ELSE b[k - p]
  BY <1>0, ConcatProperties
<1> HIDE DEF d
<1>2. /\ e \in Seq(Int) /\ Len(e) = (p + q) + r
      /\ \A k \in 1..((p + q) + r) : e[k] = IF k <= p + q THEN d[k] ELSE c[k - (p + q)]
  <2>1. /\ e \in Seq(Int) /\ Len(e) = Len(d) + Len(c)
        /\ \A k \in 1..(Len(d) + Len(c)) : e[k] = IF k <= Len(d) THEN d[k] ELSE c[k - Len(d)]
    <3>1. d \in Seq(Int) /\ c \in Seq(Int)
      BY <1>1
    <3> QED BY <3>1, ConcatProperties
  <2>2. Len(d) = p + q /\ Len(c) = r
    BY <1>0, <1>1
  <2> HIDE DEF e
  <2> QED BY <2>1, <2>2
<1> HIDE DEF e
<1>3. ASSUME NEW k \in 1..(p + q + r)
      PROVE  e[k] = IF k <= p THEN a[k] ELSE IF k <= p + q THEN b[k - p] ELSE c[k - p - q]
  <2>1. CASE k <= p + q
    <3>1. k \in 1..(p + q)
      BY <1>0, <2>1
    <3> QED BY <1>1, <1>2, <2>1, <3>1
  <2>2. CASE ~(k <= p + q)
    <3>1. k - (p + q) = k - p - q /\ ~(k <= p)
      BY <1>0, <2>2
    <3> QED BY <1>2, <2>2, <3>1
  <2> QED BY <2>1, <2>2
<1>4. (p + q) + r = p + q + r
  BY <1>0
<1> QED BY <1>2, <1>3, <1>4 DEF e, d, p, q, r

\* The three parts of the stream, and their lengths.
LEMMA ThreeParts ==
  ASSUME WriterInv
  PROVE  /\ fetched \in Seq(Int) /\ log \in Seq(Int) /\ written \in Nat /\ anchor \in Int
         /\ Contents(hBitBuf) \in Seq(Int) /\ Cached(CacheWord, BitsInCache) \in Seq(Int)
         /\ Len(fetched) \in Nat
         /\ hBitBuf.ValidBits \in Nat /\ Len(Contents(hBitBuf)) = hBitBuf.ValidBits
         /\ BitsInCache \in Nat /\ BitsInCache < CacheBits
         /\ Len(Cached(CacheWord, BitsInCache)) = BitsInCache
         /\ hBitBuf.ValidBits + BitsInCache <= BufBits
         /\ log = (fetched \o Contents(hBitBuf)) \o Cached(CacheWord, BitsInCache)
         /\ Waiting = hBitBuf.ValidBits + BitsInCache
<1>1. fetched \in Seq(Int) /\ log \in Seq(Int) /\ written \in Nat /\ anchor \in Int
  BY DEF WriterInv, HistoryTyped
<1>2. Contents(hBitBuf) \in Seq(Int) /\ Len(Contents(hBitBuf)) = hBitBuf.ValidBits
      /\ hBitBuf.ValidBits \in Nat
  BY SoundFields DEF WriterInv
<1>3. BitsInCache \in Nat /\ BitsInCache < CacheBits /\ BitsInCache \in 0..Len(CacheWord)
      /\ CacheWord \in Seq(Int)
  BY Sizes, LenProperties DEF WriterInv, CacheTyped
<1>4. Cached(CacheWord, BitsInCache) \in Seq(Int) /\ Len(Cached(CacheWord, BitsInCache)) = BitsInCache
  BY <1>3, CachedBits
<1>5. log = (fetched \o Contents(hBitBuf)) \o Cached(CacheWord, BitsInCache)
  BY InOrder DEF WriterInv
<1>6. hBitBuf.ValidBits + BitsInCache <= BufBits
  BY DEF WriterInv, RoomLeft
<1>7. Waiting = hBitBuf.ValidBits + BitsInCache
  BY SyncStores
<1> QED BY <1>1, <1>2, <1>3, <1>4, <1>5, <1>6, <1>7, LenProperties

LEMMA PatchKeepsInv ==
  ASSUME WriterInv, NEW p \in Fields, Patch(p[1], p[2])
  PROVE  WriterInv'
<1> DEFINE at == p[1]
           n == p[2]
           src == Serials(n)
           s == Contents(hBitBuf)
           c == Cached(CacheWord, BitsInCache)
           s2 == Contents(hBitBuf')
           v == hBitBuf.ValidBits
           l == Len(fetched)
           m == BitsInCache
           first == l + at + 1
           new == Overwrite(hBitBuf.Buffer, at, src, n)
           t == (fetched \o s2) \o c
<1>1. at \in 0..(BufBits - 1) /\ n \in 1..CacheBits
  <2>1. p \in (0..(BufBits - 1)) \X (1..CacheBits)
    BY WriterAssumption
  <2> QED BY <2>1
<1>2. at \in Nat /\ n \in Nat
  BY <1>1, Sizes
<1> HIDE DEF at, n
<1>3. /\ hBitBuf.WriteOffset = 0 /\ at + n <= v
      /\ hBitBuf' = [hBitBuf EXCEPT !.Buffer =
             FDKput(PushForward(InitBitBuffer(hBitBuf.Buffer, 0), at, WRITER), src).Buffer]
      /\ log' = [k \in 1..Len(log) |-> IF k \in first..(first + n - 1) THEN written + k - first ELSE log[k]]
      /\ written' = written + n
      /\ CacheWord' = CacheWord /\ BitsInCache' = BitsInCache /\ anchor' = anchor /\ fetched' = fetched
  BY DEF Patch, Overwritten, at, n
<1>4. /\ fetched \in Seq(Int) /\ log \in Seq(Int) /\ written \in Nat /\ anchor \in Int
      /\ s \in Seq(Int) /\ Len(s) = v /\ v \in Nat
      /\ c \in Seq(Int) /\ Len(c) = m /\ m \in Nat /\ l \in Nat
      /\ log = (fetched \o s) \o c /\ Len(fetched) = l
  BY ThreeParts
<1>5. src \in Seq(Int) /\ Len(src) = n
  BY <1>2, <1>4, SerialBits
<1>6. \A k \in 1..n : src[k] = written + k - 1
  BY DEF Serials
<1>7. hBitBuf' = [hBitBuf EXCEPT !.Buffer = new]
  <2> HIDE DEF src
  <2> QED BY <1>1, <1>3, <1>5, SecondWriter
<1>8. /\ Sound(hBitBuf') /\ hBitBuf'.ValidBits = v
      /\ \A k \in 1..v : s2[k] = IF k \in (at + 1)..(at + n) THEN src[k - at] ELSE s[k]
  <2>1. Sound(hBitBuf)
    BY DEF WriterInv
  <2>2. LET b2 == [hBitBuf EXCEPT !.Buffer = Overwrite(hBitBuf.Buffer, at, src, Len(src))]
        IN  /\ Sound(b2) /\ b2.ValidBits = hBitBuf.ValidBits
            /\ \A k \in 1..hBitBuf.ValidBits :
                 Contents(b2)[k] = IF k \in (at + 1)..(at + Len(src))
                                   THEN src[k - at] ELSE Contents(hBitBuf)[k]
    <3> HIDE DEF src
    <3> QED BY <1>2, <1>3, <1>5, <2>1, OverwriteReplaces
  <2>3. hBitBuf' = [hBitBuf EXCEPT !.Buffer = Overwrite(hBitBuf.Buffer, at, src, Len(src))]
    BY <1>5, <1>7
  <2> HIDE DEF src
  <2> QED BY <1>5, <2>2, <2>3
<1>9. s2 \in Seq(Int) /\ Len(s2) = v
  BY <1>8, SoundFields
<1> HIDE DEF src, s, c, s2, v, l, m, new
<1>10. /\ Len(log) = l + v + m
       /\ \A k \in 1..(l + v + m) :
            log[k] = IF k <= l THEN fetched[k] ELSE IF k <= l + v THEN s[k - l] ELSE c[k - l - v]
  <2> DEFINE u == (fetched \o s) \o c
  <2>1. /\ Len(u) = l + v + m
        /\ \A k \in 1..(l + v + m) :
             u[k] = IF k <= l THEN fetched[k] ELSE IF k <= l + v THEN s[k - l] ELSE c[k - l - v]
    <3>1. /\ fetched \in Seq(Int) /\ s \in Seq(Int) /\ c \in Seq(Int)
          /\ Len(fetched) = l /\ Len(s) = v /\ Len(c) = m
      BY <1>4
    <3>2. /\ Len(u) = Len(fetched) + Len(s) + Len(c)
          /\ \A k \in 1..(Len(fetched) + Len(s) + Len(c)) :
               u[k] = IF k <= Len(fetched) THEN fetched[k]
                      ELSE IF k <= Len(fetched) + Len(s) THEN s[k - Len(fetched)]
                      ELSE c[k - Len(fetched) - Len(s)]
      BY <3>1, ConcatThree
    <3> HIDE DEF u
    <3> QED BY <3>1, <3>2
  <2>2. log = u
    BY <1>4
  <2> HIDE DEF u
  <2> QED BY <2>1, <2>2
<1>11. /\ t \in Seq(Int) /\ Len(t) = l + v + m
       /\ \A k \in 1..(l + v + m) :
            t[k] = IF k <= l THEN fetched[k] ELSE IF k <= l + v THEN s2[k - l] ELSE c[k - l - v]
  <2>1. /\ fetched \in Seq(Int) /\ s2 \in Seq(Int) /\ c \in Seq(Int)
        /\ Len(fetched) = l /\ Len(s2) = v /\ Len(c) = m
    BY <1>4, <1>9
  <2>2. /\ t \in Seq(Int) /\ Len(t) = Len(fetched) + Len(s2) + Len(c)
        /\ \A k \in 1..(Len(fetched) + Len(s2) + Len(c)) :
             t[k] = IF k <= Len(fetched) THEN fetched[k]
                    ELSE IF k <= Len(fetched) + Len(s2) THEN s2[k - Len(fetched)]
                    ELSE c[k - Len(fetched) - Len(s2)]
    BY <2>1, ConcatThree
  <2> HIDE DEF t
  <2> QED BY <2>1, <2>2
<1> HIDE DEF t
<1>12. log' \in Seq(Int) /\ Len(log') = l + v + m
  <2> DEFINE len == l + v + m
  <2>1. len \in Nat
    BY <1>4
  <2>2. \A k \in 1..len : log[k] \in Int /\ written + k - first \in Int
    BY <1>2, <1>4, <1>10, ElementOfSeq
  <2> HIDE DEF len, first
  <2>3. log' \in [1..len -> Int]
    BY <1>3, <1>10, <2>2 DEF len
  <2>4. log' \in Seq(Int) /\ Len(log') = len
    BY <2>1, <2>3, SeqDef
  <2> QED BY <2>4 DEF len
<1>13. ASSUME NEW k \in 1..(l + v + m) PROVE log'[k] = t[k]
  <2>0. log'[k] = IF k \in first..(first + n - 1) THEN written + k - first ELSE log[k]
    <3> HIDE DEF first
    <3> QED BY <1>3, <1>10
  <2>1. CASE k <= l
    <3>1. k \notin first..(first + n - 1)
      BY <1>2, <1>4, <2>1
    <3> HIDE DEF first
    <3> QED BY <1>10, <1>11, <2>0, <2>1, <3>1
  <2>2. CASE ~(k <= l) /\ k <= l + v
    <3> DEFINE j == k - l
    <3>1. /\ j \in 1..v /\ (k \in first..(first + n - 1) <=> j \in (at + 1)..(at + n))
          /\ written + k - first = written + (j - at) - 1
      BY <1>2, <1>4, <2>2
    <3>2. j \in (at + 1)..(at + n) => j - at \in 1..n
      BY <1>2, <3>1
    <3>3. t[k] = s2[j] /\ log[k] = s[j]
      BY <1>10, <1>11, <2>2
    <3> HIDE DEF j, first
    <3>4. s2[j] = IF j \in (at + 1)..(at + n) THEN src[j - at] ELSE s[j]
      BY <1>8, <3>1
    <3>5. j \in (at + 1)..(at + n) => src[j - at] = written + (j - at) - 1
      BY <1>6, <3>2
    <3> QED BY <2>0, <3>1, <3>3, <3>4, <3>5
  <2>3. CASE ~(k <= l + v)
    <3>1. k \notin first..(first + n - 1) /\ ~(k <= l)
      <4>1. at + n <= v
        BY <1>3
      <4> QED BY <1>2, <1>4, <2>3, <4>1
    <3> HIDE DEF first
    <3> QED BY <1>10, <1>11, <2>0, <2>3, <3>1
  <2> QED BY <2>1, <2>2, <2>3
<1>14. log' = t
  BY <1>11, <1>12, <1>13, SeqEqual
<1>15. StoredInOrder'
  <2>1. log' = (fetched' \o Contents(hBitBuf')) \o Cached(CacheWord', BitsInCache')
    BY <1>3, <1>14 DEF t, s2, c
  <2> QED BY <2>1 DEF StoredInOrder, Contents
<1>16. HistoryTyped'
  <2>1. written' = written + n /\ anchor' = anchor /\ fetched' = fetched
    BY <1>3
  <2>2. written' \in Nat /\ anchor' \in Int /\ fetched' \in Seq(Int)
    BY <1>2, <1>4, <2>1
  <2> QED BY <1>12, <2>2 DEF HistoryTyped
<1>17. CacheTyped' /\ RoomLeft'
  BY <1>3, <1>8 DEF WriterInv, CacheTyped, RoomLeft, v
<1> QED BY <1>8, <1>15, <1>16, <1>17 DEF WriterInv

LEMMA WriteKeepsInv ==
  ASSUME WriterInv, NEW n \in 0..CacheBits, WriteBits(n)
  PROVE  WriterInv'
<1> DEFINE m == BitsInCache
           v == hBitBuf.ValidBits
           value == Serials(n)
           c == Cached(CacheWord, m)
           s == Contents(hBitBuf)
           word == c \o value
           u == fetched \o s
<1>0. CacheBits \in Nat \ {0} /\ CacheBits <= BufBits /\ BufBits \in Nat /\ n \in Nat /\ n <= CacheBits
  BY Sizes
<1>1. /\ fetched \in Seq(Int) /\ log \in Seq(Int) /\ written \in Nat /\ anchor \in Int
      /\ s \in Seq(Int) /\ Len(s) = v /\ v \in Nat
      /\ c \in Seq(Int) /\ Len(c) = m /\ m \in Nat /\ m < CacheBits
      /\ log = u \o c /\ Waiting = v + m
  BY ThreeParts
<1>2. value \in Seq(Int) /\ Len(value) = n
  BY <1>0, <1>1, SerialBits
<1>3. /\ v + m + n <= BufBits
      /\ log' = log \o value /\ written' = written + n /\ anchor' = anchor /\ fetched' = fetched
      /\ \/ /\ m + n < CacheBits
            /\ CacheWord' = word /\ BitsInCache' = m + n /\ hBitBuf' = hBitBuf
         \/ /\ m + n >= CacheBits
            /\ hBitBuf' = FDKput(hBitBuf, SubSeq(word, 1, CacheBits))
            /\ CacheWord' = value /\ BitsInCache' = n - (CacheBits - m)
  BY <1>1 DEF WriteBits, Fits
<1> HIDE DEF m, v, value, c, s
<1>4. word \in Seq(Int) /\ Len(word) = m + n
      /\ \A k \in 1..(m + n) : word[k] = IF k <= m THEN c[k] ELSE value[k - m]
  <2>1. /\ word \in Seq(Int) /\ Len(word) = Len(c) + Len(value)
        /\ \A k \in 1..(Len(c) + Len(value)) : word[k] = IF k <= Len(c) THEN c[k] ELSE value[k - Len(c)]
    <3>1. c \in Seq(Int) /\ value \in Seq(Int)
      BY <1>1, <1>2
    <3> QED BY <3>1, ConcatProperties
  <2>2. Len(c) = m /\ Len(value) = n
    BY <1>1, <1>2
  <2> HIDE DEF word
  <2> QED BY <2>1, <2>2
<1>5. u \in Seq(Int)
  BY <1>1, ConcatProperties
<1>6. log' = u \o word
  <2>1. (u \o c) \o value = u \o (c \o value)
    <3>1. u \in Seq(Int) /\ c \in Seq(Int) /\ value \in Seq(Int)
      BY <1>1, <1>2, <1>5
    <3> HIDE DEF u
    <3> QED BY <3>1, ConcatAssociative
  <2> QED BY <1>1, <1>3, <2>1
<1>7. log' \in Seq(Int)
  BY <1>4, <1>5, <1>6, ConcatProperties
<1>8. HistoryTyped'
  <2>1. written' \in Nat /\ anchor' \in Int /\ fetched' \in Seq(Int)
    BY <1>0, <1>1, <1>3
  <2> QED BY <1>7, <2>1 DEF HistoryTyped
<1> HIDE DEF word
<1>9. CASE /\ m + n < CacheBits
           /\ CacheWord' = word /\ BitsInCache' = m + n /\ hBitBuf' = hBitBuf
  <2> DEFINE k == m + n
  <2>0. k \in Nat /\ k \in 0..CacheBits /\ k < CacheBits /\ k <= Len(word) /\ Len(word) = k
        /\ v + k <= BufBits
    BY <1>0, <1>1, <1>3, <1>4, <1>9
  <2>1. BitsInCache' = k
    BY <1>9
  <2> HIDE DEF k
  <2>2. Cached(word, k) = word
    <3>1. k - k + 1 = 1
      BY <2>0
    <3>2. SubSeq(word, 1, Len(word)) = word
      BY <1>4, SubSeqFull
    <3> QED BY <2>0, <3>1, <3>2 DEF Cached
  <2>3. CacheTyped'
    BY <1>4, <1>9, <2>0, <2>1 DEF CacheTyped
  <2>4. RoomLeft'
    BY <1>9, <2>0, <2>1 DEF RoomLeft, v
  <2>5. StoredInOrder'
    <3>1. log' = (fetched' \o Contents(hBitBuf')) \o Cached(CacheWord', BitsInCache')
      BY <1>3, <1>6, <1>9, <2>1, <2>2 DEF s
    <3> QED BY <3>1 DEF StoredInOrder, Contents
  <2>6. Sound(hBitBuf')
    BY <1>9 DEF WriterInv
  <2> QED BY <1>8, <2>3, <2>4, <2>5, <2>6 DEF WriterInv
<1>10. CASE /\ m + n >= CacheBits
            /\ hBitBuf' = FDKput(hBitBuf, SubSeq(word, 1, CacheBits))
            /\ CacheWord' = value /\ BitsInCache' = n - (CacheBits - m)
  <2> DEFINE j == n - (CacheBits - m)
             h == SubSeq(word, 1, CacheBits)
             r == Cached(value, j)
             t == h \o r
  <2>0. /\ j \in 0..CacheBits /\ j < CacheBits /\ j \in Nat /\ j <= n /\ CacheBits + j = m + n
        /\ v + CacheBits <= BufBits /\ v + CacheBits + j <= BufBits
    BY <1>0, <1>1, <1>3, <1>10
  <2>1. BitsInCache' = j
    BY <1>10
  <2>2. h \in Seq(Int) /\ Len(h) = CacheBits /\ \A k \in 1..CacheBits : h[k] = word[k]
    <3>1. \A k \in 1..CacheBits : word[k] \in Int
      <4>1. \A k \in 1..CacheBits : k \in 1..Len(word)
        BY <1>0, <1>1, <1>4, <1>10
      <4> QED BY <1>4, <4>1, ElementOfSeq
    <3>2. CacheBits \in Int /\ 1 <= CacheBits /\ CacheBits - 1 + 1 = CacheBits
          /\ \A k \in 1..CacheBits : 1 + k - 1 = k
      BY <1>0
    <3>3. /\ h \in Seq(Int) /\ Len(h) = (IF 1 <= CacheBits THEN CacheBits - 1 + 1 ELSE 0)
          /\ \A k \in 1..(CacheBits - 1 + 1) : h[k] = word[1 + k - 1]
      BY <3>1, <3>2, SubSeqProperties
    <3> HIDE DEF h
    <3> QED BY <3>2, <3>3
  <2>3. r \in Seq(Int) /\ Len(r) = j /\ \A k \in 1..j : r[k] = value[n - j + k]
    <3> HIDE DEF j
    <3>1. j \in 0..Len(value) /\ Len(value) = n
      BY <1>2, <2>0
    <3>2. /\ r \in Seq(Int) /\ Len(r) = j
          /\ \A k \in 1..j : r[k] = value[Len(value) - j + k]
      BY <1>2, <3>1, CachedBits
    <3> HIDE DEF r
    <3> QED BY <3>1, <3>2
  <2> HIDE DEF h, r, j
  <2>4. t \in Seq(Int) /\ Len(t) = m + n
        /\ \A k \in 1..(m + n) : t[k] = IF k <= CacheBits THEN h[k] ELSE r[k - CacheBits]
    <3>1. /\ t \in Seq(Int) /\ Len(t) = Len(h) + Len(r)
          /\ \A k \in 1..(Len(h) + Len(r)) : t[k] = IF k <= Len(h) THEN h[k] ELSE r[k - Len(h)]
      <4>1. h \in Seq(Int) /\ r \in Seq(Int)
        BY <2>2, <2>3
      <4> QED BY <4>1, ConcatProperties
    <3>2. Len(h) = CacheBits /\ Len(r) = j /\ CacheBits + j = m + n
      BY <2>0, <2>2, <2>3
    <3> HIDE DEF t
    <3> QED BY <3>1, <3>2
  <2> HIDE DEF t
  <2>5. ASSUME NEW k \in 1..(m + n) PROVE word[k] = t[k]
    <3>1. CASE k <= CacheBits
      <4>1. k \in 1..CacheBits
        BY <1>0, <1>1, <3>1
      <4> QED BY <2>2, <2>4, <3>1, <4>1
    <3>2. CASE ~(k <= CacheBits)
      <4>1. /\ k - CacheBits \in 1..j /\ n - j + (k - CacheBits) = k - m /\ ~(k <= m)
        BY <1>0, <1>1, <2>0, <3>2
      <4>2. t[k] = r[k - CacheBits] /\ word[k] = value[k - m]
        BY <1>4, <2>4, <3>2, <4>1
      <4>3. r[k - CacheBits] = value[n - j + (k - CacheBits)]
        BY <2>3, <4>1
      <4> QED BY <4>1, <4>2, <4>3
    <3> QED BY <3>1, <3>2
  <2>6. word = t
    BY <1>4, <2>4, <2>5, SeqEqual
  <2>7. /\ Sound(hBitBuf') /\ hBitBuf'.ValidBits = v + CacheBits
        /\ Contents(hBitBuf') = s \o h
    <3>1. hBitBuf' = FDKput(hBitBuf, h)
      BY <1>10 DEF h
    <3>2. Sound(hBitBuf) /\ hBitBuf.ValidBits + Len(h) <= BufBits
      BY <2>0, <2>2 DEF WriterInv, v
    <3> QED BY <2>2, <3>1, <3>2, PutAppends DEF v, s
  <2>8. log' = (fetched' \o Contents(hBitBuf')) \o r
    <3>1. fetched \o (s \o h) = u \o h /\ u \o (h \o r) = (u \o h) \o r
      <4>1. /\ fetched \in Seq(Int) /\ s \in Seq(Int) /\ h \in Seq(Int) /\ r \in Seq(Int)
            /\ u \in Seq(Int)
        BY <1>1, <1>5, <2>2, <2>3
      <4>2. (fetched \o s) \o h = fetched \o (s \o h)
        <5>1. fetched \in Seq(Int) /\ s \in Seq(Int) /\ h \in Seq(Int)
          BY <4>1
        <5> QED BY <5>1, ConcatAssociative
      <4>3. (u \o h) \o r = u \o (h \o r)
        <5>1. u \in Seq(Int) /\ h \in Seq(Int) /\ r \in Seq(Int)
          BY <4>1
        <5> HIDE DEF u
        <5> QED BY <5>1, ConcatAssociative
      <4> QED BY <4>2, <4>3
    <3>2. fetched' = fetched
      BY <1>3
    <3> HIDE DEF u
    <3>3. fetched' \o Contents(hBitBuf') = u \o h
      BY <2>7, <3>1, <3>2
    <3>4. log' = u \o (h \o r)
      BY <1>6, <2>6 DEF t
    <3> QED BY <3>1, <3>3, <3>4
  <2>9. StoredInOrder'
    <3>1. CacheWord' = value
      BY <1>10
    <3>2. log' = (fetched' \o Contents(hBitBuf')) \o Cached(CacheWord', BitsInCache')
      BY <2>1, <2>8, <3>1 DEF r
    <3> QED BY <3>2 DEF StoredInOrder, Contents
  <2>10. CacheTyped'
    BY <1>2, <1>10, <2>0, <2>1 DEF CacheTyped
  <2>11. RoomLeft'
    BY <2>0, <2>1, <2>7 DEF RoomLeft
  <2> QED BY <1>8, <2>7, <2>9, <2>10, <2>11 DEF WriterInv
<1> QED BY <1>3, <1>9, <1>10

-----------------------------------------------------------------------------
LEMMA InitInv == Init => WriterInv
<1> SUFFICES ASSUME Init PROVE WriterInv
  OBVIOUS
<1> DEFINE memory == [i \in 0..(BufBits - 1) |-> Blank]
           e == << >>
           z == 0
<1>0. ByteBits \in Nat \ {0} /\ BufSize \in Nat \ {0} /\ BufBits \in Nat \ {0} /\ CacheBits \in Nat \ {0}
  BY Sizes
<1>1. /\ hBitBuf = [ValidBits |-> z, ReadOffset |-> z, WriteOffset |-> z, BitNdx |-> z, Buffer |-> memory]
      /\ CacheWord = e /\ BitsInCache = z /\ log = e /\ fetched = e /\ written = z /\ anchor = z
  BY DEF Init, InitBitBuffer
<1>2. memory \in [0..(BufBits - 1) -> Int]
  BY DEF Blank
<1>3. /\ z \in Int /\ z \in Nat /\ z \in 0..(BufSize - 1) /\ z \in 0..(BufBits - 1)
      /\ z \in 0..BufBits /\ z \in 0..CacheBits /\ z < CacheBits /\ z + z <= BufBits
      /\ z * ByteBits + z = z
  BY <1>0
<1>4. e \in Seq(Int) /\ Len(e) = z
  BY EmptySeq
<1>5. RingBit(z) = z
  <2> HIDE DEF z
  <2> QED BY <1>3, RingPlace
<1> HIDE DEF memory, z, e
<1>6. Sound(hBitBuf)
  <2>1. hBitBuf \in BitBuf(Int)
    BY <1>1, <1>2, <1>3 DEF BitBuf
  <2> QED BY <1>1, <1>3, <1>5, <2>1 DEF Sound
<1>7. CacheTyped /\ HistoryTyped /\ RoomLeft
  BY <1>1, <1>3, <1>4 DEF CacheTyped, HistoryTyped, RoomLeft
<1>8. StoredInOrder
  <2>1. Contents(hBitBuf) \in Seq(Int) /\ Len(Contents(hBitBuf)) = 0
    BY <1>1, <1>6, SoundFields DEF z
  <2>2. Contents(hBitBuf) = e
    BY <2>1, EmptySeq DEF e
  <2>3. Cached(e, z) = e
    <3>1. z \in 0..Len(e)
      BY <1>4 DEF z
    <3>2. Cached(e, z) \in Seq(Int) /\ Len(Cached(e, z)) = z
      BY <1>4, <3>1, CachedBits
    <3> QED BY <3>2, EmptySeq DEF e, z
  <2>4. e \o e = e
    BY <1>4, ConcatEmptySeq DEF e
  <2> QED BY <1>1, <2>2, <2>3, <2>4, InOrder
<1> QED BY <1>6, <1>7, <1>8 DEF WriterInv

LEMMA NextInv == WriterInv /\ [Next]_vars => WriterInv'
<1> SUFFICES ASSUME WriterInv, [Next]_vars PROVE WriterInv'
  OBVIOUS
<1>1. CASE \E n \in 0..CacheBits : WriteBits(n)
  BY <1>1, WriteKeepsInv
<1>2. CASE \E n \in 1..BufBits : PushBackBits(n)
  BY <1>2, PushBackKeepsInv
<1>3. CASE \E f \in Fields : Patch(f[1], f[2])
  BY <1>3, PatchKeepsInv
<1>4. CASE \E wanted \in 1..BufSize : FetchBuffer(wanted)
  BY <1>4, FetchKeepsInv
<1>5. CASE GetValidBits
  BY <1>5, GetValidBitsKeepsInv
<1>6. CASE ByteAlign
  BY <1>6, ByteAlignKeepsInv
<1>7. CASE UNCHANGED vars
  BY <1>7 DEF vars, WriterInv, Sound, CacheTyped, HistoryTyped, RoomLeft, StoredInOrder
<1> QED BY <1>1, <1>2, <1>3, <1>4, <1>5, <1>6, <1>7 DEF Next

\* The cursors of the writer's ring, its cache and what was written stay together
\* through every sequence of writes, take-backs, alignments, patches and fetches.
THEOREM WriterInvariance == Spec => []WriterInv
<1> QED BY InitInv, NextInv, PTL DEF Spec

\* What an encoder writes through FDK_BITSTREAM comes out of FDKfetchBuffer in
\* order and whole, for every size of ring and cache.
THEOREM WrittenIsStored == Spec => []StoredInOrder
<1>1. WriterInv => StoredInOrder
  BY DEF WriterInv
<1> QED BY <1>1, WriterInvariance, PTL
=============================================================================
