--------------------------- MODULE LimiterProofs ---------------------------
(***************************************************************************)
(* Proofs about the limiter, for any attack times, channels, levels and    *)
(* scalings: its indices stay in its memory, and soon after a change its   *)
(* maximum is the maximum of the window and its delay is exact again.      *)
(*                                                                         *)
(* What holds between a change and the state in which all is in order is   *)
(* said sample by sample: the i-th last sample is where it belongs as soon *)
(* as i samples, and the one that may have met an index behind its end,    *)
(* came in since the change.                                               *)
(***************************************************************************)
EXTENDS Limiter, TLAPS

\* Where the sample of i samples ago is in the window and in the delay line.
InWindow(i) == IF i <= maxBufIdx THEN maxBufIdx - i ELSE maxBufIdx - i + attack + 1
InLine(i) == IF i <= delayBufIdx THEN delayBufIdx - i ELSE delayBufIdx - i + attack

Indices == steady >= 1 => (maxBufIdx <= attack /\ delayBufIdx < attack)

Stored ==
  \A i \in 1..(attack + 1) :
    i < steady => (maxBuf[InWindow(i)] = recent[i] /\ recent[i] <= max)

Found == ~lost => \E j \in 0..attack : maxBuf[j] = max

Queued ==
  \A i \in 1..attack, k \in 0..(channels - 1) :
    i < steady => delayBuf[InLine(i) * channels + k] =
                    IF i <= since THEN [age |-> i, channel |-> k] ELSE Cleared

IInv == TypeOK /\ Indices /\ Stored /\ Found /\ Queued /\ DelayIsExact

-----------------------------------------------------------------------------
LEMMA ProductKeepsOrder ==
  ASSUME NEW a \in Nat, NEW b \in Nat, NEW k \in Nat, a <= b
  PROVE  a * k <= b * k /\ a * k \in Nat /\ b * k \in Nat
BY SMT

\* Quotient and remainder.
LEMMA DivMod ==
  ASSUME NEW N \in Nat \ {0}, NEW a \in Int
  PROVE  /\ a % N \in 0..(N - 1)
         /\ a \div N \in Int
         /\ a = N * (a \div N) + (a % N)
  OBVIOUS

LEMMA QuotientKeepsOrder ==
  ASSUME NEW a \in Nat, NEW b \in Nat, NEW k \in Nat \ {0}, a <= b
  PROVE  a \div k <= b \div k /\ a \div k \in Nat /\ b \div k \in Nat /\ b \div k <= b
<1> DEFINE p == a \div k
           q == b \div k
<1>1. p \in Int /\ a % k \in 0..(k - 1) /\ a = k * p + (a % k)
  BY DivMod
<1>2. q \in Int /\ b % k \in 0..(k - 1) /\ b = k * q + (b % k)
  BY DivMod
<1>3. p \in Nat /\ q \in Nat
  <2>1. k * p > -k /\ k * q > -k
    BY <1>1, <1>2
  <2> QED BY <1>1, <1>2, <2>1, SMTT(30)
<1>4. p <= q
  <2> SUFFICES ASSUME q + 1 <= p PROVE FALSE
    BY <1>3
  <2>1. k * (q + 1) <= k * p
    BY <1>3, SMTT(30)
  <2>2. k * (q + 1) = k * q + k
    BY <1>3, SMTT(30)
  <2> QED BY <1>1, <1>2, <1>3, <2>1, <2>2
<1>5. q <= b
  <2>1. q <= k * q
    BY <1>3, SMTT(30)
  <2> QED BY <1>2, <1>3, <2>1
<1> QED BY <1>3, <1>4, <1>5

\* The samples of different times have different places in the delay line.
LEMMA DifferentPlaces ==
  ASSUME NEW c \in Nat \ {0}, NEW a \in Nat, NEW b \in Nat, a # b,
         NEW j \in 0..(c - 1)
  PROVE  a * c + j \notin (b * c)..(b * c + c - 1)
<1>1. a * c \in Nat /\ b * c \in Nat /\ (a + 1) * c = a * c + c /\ (b + 1) * c = b * c + c
  BY SMT
<1>2. CASE a + 1 <= b
  BY <1>1, <1>2, ProductKeepsOrder
<1>3. CASE b + 1 <= a
  BY <1>1, <1>3, ProductKeepsOrder
<1> QED BY <1>2, <1>3

\* What the attack time and the channels in use need is in the memory.
LEMMA PlaceInMemory ==
  ASSUME NEW n \in Nat, NEW a \in 0..(n - 1), NEW C \in Nat, NEW c \in 1..C,
         NEW j \in 0..(c - 1)
  PROVE  a * c + j \in 0..(n * C - 1) /\ a * c + j < n * c
<1>1. (a + 1) * c <= n * c /\ a * c \in Nat /\ (a + 1) * c = a * c + c
  BY ProductKeepsOrder
<1>2. n * c <= n * C /\ n * C \in Nat
  BY SMTT(30)
<1> QED BY <1>1, <1>2

LEMMA RescaledKeepsOrder ==
  ASSUME TypeOK, NEW s \in Scalings, NEW v \in Level, NEW w \in Level, v <= w
  PROVE  Rescaled(v, s) \in Level /\ Rescaled(w, s) \in Level /\ Rescaled(v, s) <= Rescaled(w, s)
<1>1. s \in Nat \ {0} /\ scaling \in Nat \ {0} /\ MaxLevel \in Nat
  BY LimiterAssumption DEF TypeOK
<1>2. CASE s <= scaling
  <2>1. scaling \div s \in Nat
    BY <1>1, QuotientKeepsOrder
  <2>2. /\ v * (scaling \div s) <= w * (scaling \div s)
        /\ v * (scaling \div s) \in Nat /\ w * (scaling \div s) \in Nat
    BY <2>1, <1>1, ProductKeepsOrder DEF Level
  <2> HIDE DEF Level
  <2> QED BY <1>1, <1>2, <2>2 DEF Rescaled, Smaller, Level
<1>3. CASE ~(s <= scaling)
  <2>1. s \div scaling \in Nat /\ s \div scaling # 0
    <3>1. s \div scaling >= scaling \div scaling /\ s \div scaling \in Nat
      BY <1>1, <1>3, QuotientKeepsOrder
    <3>2. scaling \div scaling = 1
      BY <1>1, SMT
    <3> QED BY <3>1, <3>2
  <2>2. /\ v \div (s \div scaling) <= w \div (s \div scaling)
        /\ v \div (s \div scaling) \in Nat
        /\ w \div (s \div scaling) \in Nat /\ w \div (s \div scaling) <= w
    BY <2>1, QuotientKeepsOrder DEF Level
  <2> QED BY <1>1, <1>3, <2>2 DEF Rescaled, Level
<1> QED BY <1>2, <1>3

-----------------------------------------------------------------------------
\* The window and the maximum in the scaling of the samples that come in.
InScale(v, s) == IF s = scaling THEN v ELSE Rescaled(v, s)

LEMMA InScaleKeepsOrder ==
  ASSUME TypeOK, NEW s \in Scalings, NEW v \in Level, NEW w \in Level, v <= w
  PROVE  InScale(v, s) \in Level /\ InScale(w, s) \in Level /\ InScale(v, s) <= InScale(w, s)
BY RescaledKeepsOrder DEF InScale

LEMMA Parameters ==
  ASSUME TypeOK
  PROVE  /\ attack \in Nat \ {0} /\ attack <= MaxAttack /\ MaxAttack \in Nat
         /\ channels \in Nat \ {0} /\ channels <= MaxChannels /\ MaxChannels \in Nat
         /\ MaxLevel \in Nat
         /\ maxBufIdx \in Nat /\ delayBufIdx \in Nat
         /\ since \in Nat /\ steady \in Nat
BY LimiterAssumption DEF TypeOK, Settled

LEMMA WindowScaled ==
  ASSUME TypeOK, NEW s \in Scalings
  PROVE  /\ WindowIn(s) \in [0..MaxAttack -> Level]
         /\ MaxIn(s) \in Level /\ MaxIn(s) = InScale(max, s)
         /\ \A i \in 0..attack : WindowIn(s)[i] = InScale(maxBuf[i], s)
<1>1. maxBuf \in [0..MaxAttack -> Level] /\ max \in Level /\ 0..attack \subseteq 0..MaxAttack
  BY Parameters DEF TypeOK
<1>2. \A v \in Level : InScale(v, s) \in Level
  <2> TAKE v \in Level
  <2>1. v <= v
    BY DEF Level
  <2> QED BY <2>1, InScaleKeepsOrder
<1>3. MaxIn(s) = InScale(max, s)
  BY DEF MaxIn, InScale
<1>4. CASE s = scaling
  BY <1>1, <1>2, <1>3, <1>4 DEF WindowIn, InScale
<1>5. CASE s # scaling
  <2>1. \A v \in Level : Rescaled(v, s) \in Level
    BY <1>2, <1>5 DEF InScale
  <2> QED BY <1>1, <1>2, <1>3, <1>5, <2>1 DEF WindowIn, InScale
<1> QED BY <1>4, <1>5

\* One step of the running maximum: no sample in the window is louder than the new
\* maximum, if none was louder than the one before, and the maximum stays in it.
LEMMA RunningMaxHolds ==
  ASSUME TypeOK, NEW s \in Scalings, NEW level \in Level, RunningMax(level, s),
         attack' = attack
  PROVE  /\ maxBuf' = [WindowIn(s) EXCEPT ![maxBufIdx] = level]
         /\ maxBuf' \in [0..MaxAttack -> Level]
         /\ max' \in Level /\ (maxBufIdx <= attack => level <= max')
         /\ maxBufIdx' = NextIndex(maxBufIdx, attack + 1)
         /\ maxBufIdx' \in 0..attack
         /\ lost' \in BOOLEAN
         /\ \A i \in (0..attack) \ {maxBufIdx} :
               maxBuf[i] <= max => (maxBuf'[i] = InScale(maxBuf[i], s) /\ maxBuf'[i] <= max')
         /\ Found => Found'
<1> DEFINE buf == WindowIn(s)
           m == MaxIn(s)
           new == [buf EXCEPT ![maxBufIdx] = level]
<1>1. /\ maxBuf' = new
      /\ \/ level >= m /\ max' = level /\ lost' = (maxBufIdx > attack)
         \/ KeepsMax(level, buf[maxBufIdx], m) /\ max' = m /\ UNCHANGED lost
         \/ /\ level < m
            /\ max' \in {new[i] : i \in 0..attack} /\ \A i \in 0..attack : new[i] <= max'
            /\ lost' = FALSE
      /\ maxBufIdx' = NextIndex(maxBufIdx, attack + 1)
  BY DEF RunningMax
<1>2. /\ buf \in [0..MaxAttack -> Level] /\ m \in Level /\ m = InScale(max, s)
      /\ \A i \in 0..attack : buf[i] = InScale(maxBuf[i], s)
  BY WindowScaled
<1>3. /\ attack \in Nat \ {0} /\ attack <= MaxAttack /\ MaxAttack \in Nat
      /\ maxBufIdx \in 0..MaxAttack /\ lost \in BOOLEAN
      /\ maxBuf \in [0..MaxAttack -> Level] /\ max \in Level
  BY Parameters DEF TypeOK
<1>4. \A v \in Level : v \in Int
  BY LimiterAssumption DEF Level
<1> HIDE DEF buf, m
<1>5. new \in [0..MaxAttack -> Level]
  BY <1>2, <1>3
<1>6. max' \in Level /\ (maxBufIdx <= attack => level <= max') /\ (m <= max' \/ \A i \in 0..attack : new[i] <= max')
      /\ lost' \in BOOLEAN
  <2>1. CASE level >= m /\ max' = level /\ lost' = (maxBufIdx > attack)
    BY <1>4, <2>1, <1>2
  <2>2. CASE KeepsMax(level, buf[maxBufIdx], m) /\ max' = m /\ UNCHANGED lost
    BY <1>3, <1>4, <2>2, <1>2 DEF KeepsMax
  <2>3. CASE /\ level < m
             /\ max' \in {new[i] : i \in 0..attack} /\ \A i \in 0..attack : new[i] <= max'
             /\ lost' = FALSE
    <3>1. PICK k \in 0..attack : max' = new[k]
      BY <2>3
    <3>2. max' \in Level
      BY <3>1, <1>3, <1>5
    <3>3. maxBufIdx <= attack => level <= max'
      <4> SUFFICES ASSUME maxBufIdx <= attack PROVE level <= max'
        OBVIOUS
      <4>1. maxBufIdx \in 0..attack /\ new[maxBufIdx] = level
        BY <1>2, <1>3
      <4> QED BY <2>3, <4>1
    <3> QED BY <2>3, <3>2, <3>3
  <2> QED BY <1>1, <2>1, <2>2, <2>3
<1>7. \A i \in (0..attack) \ {maxBufIdx} :
        maxBuf[i] <= max => (maxBuf'[i] = InScale(maxBuf[i], s) /\ maxBuf'[i] <= max')
  <2> SUFFICES ASSUME NEW i \in (0..attack) \ {maxBufIdx}, maxBuf[i] <= max
               PROVE  maxBuf'[i] = InScale(maxBuf[i], s) /\ maxBuf'[i] <= max'
    OBVIOUS
  <2>1. i \in 0..MaxAttack /\ i # maxBufIdx /\ i \in 0..attack
    BY <1>3
  <2>2. new[i] = buf[i] /\ buf[i] = InScale(maxBuf[i], s)
    BY <1>2, <2>1
  <2>3. InScale(maxBuf[i], s) <= m /\ InScale(maxBuf[i], s) \in Level
    BY <1>2, <1>3, <2>1, InScaleKeepsOrder
  <2>4. new[i] <= max'
    BY <1>2, <1>4, <1>6, <2>1, <2>2, <2>3
  <2> QED BY <1>1, <2>2, <2>4
<1>8. Found => Found'
  <2> SUFFICES ASSUME Found, ~lost' PROVE \E j \in 0..attack : maxBuf'[j] = max'
    BY DEF Found
  <2>1. CASE level >= m /\ max' = level /\ lost' = (maxBufIdx > attack)
    <3>1. ~(maxBufIdx > attack)
      BY <2>1
    <3>2. maxBufIdx \in 0..attack
      BY <1>3, <3>1
    <3>3. new[maxBufIdx] = level
      BY <1>2, <1>3
    <3> QED BY <1>1, <2>1, <3>2, <3>3
  <2>2. CASE KeepsMax(level, buf[maxBufIdx], m) /\ max' = m /\ UNCHANGED lost
    <3>1. PICK j \in 0..attack : maxBuf[j] = max
      BY <2>2 DEF Found
    <3>2. buf[j] = m
      BY <1>2, <3>1
    <3>3. buf[maxBufIdx] < m
      BY <2>2 DEF KeepsMax
    <3>4. j # maxBufIdx
      BY <1>2, <1>4, <3>2, <3>3
    <3>5. new[j] = m
      BY <1>2, <1>3, <3>2, <3>4
    <3> QED BY <1>1, <2>2, <3>5
  <2>3. CASE /\ level < m
             /\ max' \in {new[i] : i \in 0..attack} /\ \A i \in 0..attack : new[i] <= max'
             /\ lost' = FALSE
    BY <1>1, <2>3
  <2> QED BY <1>1, <2>1, <2>2, <2>3
<1>9. maxBufIdx' \in 0..attack
  BY <1>1, <1>3 DEF NextIndex
<1> QED BY <1>1, <1>5, <1>6, <1>7, <1>8, <1>9 DEF buf

-----------------------------------------------------------------------------
\* One step of the delay line: the new samples are in the place they belong to, all
\* others stay in theirs.
LEMMA DelayHolds ==
  ASSUME TypeOK, Delay
  PROVE  /\ delayBuf' \in [Slot -> Delayed \cup {Cleared}]
         /\ delayBufIdx' = NextIndex(delayBufIdx, attack)
         /\ delayBufIdx' \in 0..(attack - 1)
         /\ out' = [k \in 0..(channels - 1) |-> delayBuf[delayBufIdx * channels + k]]
         /\ \A k \in 0..(channels - 1) :
               delayBuf'[delayBufIdx * channels + k] = [age |-> 1, channel |-> k]
         /\ \A q \in (0..(attack - 1)) \ {delayBufIdx}, k \in 0..(channels - 1) :
               delayBuf'[q * channels + k] = Older(delayBuf[q * channels + k])
<1> DEFINE here == delayBufIdx * channels
           slots == here..(here + channels - 1)
<1>1. /\ attack \in Nat \ {0} /\ attack <= MaxAttack /\ MaxAttack \in Nat \ {0}
      /\ channels \in Nat \ {0} /\ channels \in 1..MaxChannels /\ MaxChannels \in Nat
      /\ delayBufIdx \in 0..(MaxAttack - 1)
      /\ delayBuf \in [Slot -> Delayed \cup {Cleared}]
  BY Parameters DEF TypeOK
<1>2. /\ delayBuf' = [p \in Slot |-> IF p \in slots THEN [age |-> 1, channel |-> p - here]
                                     ELSE Older(delayBuf[p])]
      /\ out' = [k \in 0..(channels - 1) |-> delayBuf[here + k]]
      /\ delayBufIdx' = NextIndex(delayBufIdx, attack)
  BY DEF Delay
<1>3. here \in Nat
  BY <1>1, SMT
<1>4. \A q \in 0..(MaxAttack - 1), k \in 0..(channels - 1) : q * channels + k \in Slot
  BY <1>1, PlaceInMemory DEF Slot
<1>5. \A q \in 0..(attack - 1) : q \in 0..(MaxAttack - 1) /\ q \in Nat
  BY <1>1
<1> HIDE DEF here
<1>6. \A k \in 0..(channels - 1) : delayBuf'[here + k] = [age |-> 1, channel |-> k]
  <2> TAKE k \in 0..(channels - 1)
  <2>1. here + k \in Slot
    BY <1>1, <1>4 DEF here
  <2>2. here + k \in slots /\ (here + k) - here = k
    BY <1>1, <1>3
  <2> QED BY <1>2, <2>1, <2>2
<1>7. \A q \in (0..(attack - 1)) \ {delayBufIdx}, k \in 0..(channels - 1) :
        delayBuf'[q * channels + k] = Older(delayBuf[q * channels + k])
  <2> TAKE q \in (0..(attack - 1)) \ {delayBufIdx}, k \in 0..(channels - 1)
  <2>1. q * channels + k \in Slot
    BY <1>4, <1>5
  <2>2. q * channels + k \notin slots
    BY <1>1, <1>5, DifferentPlaces DEF here
  <2> QED BY <1>2, <2>1, <2>2
<1>8. delayBuf' \in [Slot -> Delayed \cup {Cleared}]
  <2>1. ASSUME NEW p \in Slot, p \in slots
        PROVE  [age |-> 1, channel |-> p - here] \in Delayed
    <3>1. p - here \in 0..(MaxChannels - 1) /\ 1 \in 1..(MaxAttack + 1)
      BY <1>1, <1>3, <2>1
    <3> QED BY <3>1 DEF Delayed
  <2>2. ASSUME NEW d \in Delayed \cup {Cleared}
        PROVE  Older(d) \in Delayed \cup {Cleared}
    <3>1. CASE d = Cleared
      BY <3>1 DEF Older
    <3>2. CASE d # Cleared
      <4>1. d \in Delayed /\ d.age \in 1..(MaxAttack + 1)
        BY <3>2, <2>2 DEF Delayed
      <4>2. Smaller(d.age + 1, MaxAttack + 1) \in 1..(MaxAttack + 1)
        BY <1>1, <4>1 DEF Smaller
      <4>3. Older(d) = [d EXCEPT !.age = Smaller(d.age + 1, MaxAttack + 1)]
        BY <3>2 DEF Older
      <4> QED BY <4>1, <4>2, <4>3 DEF Delayed
    <3> QED BY <3>1, <3>2
  <2> QED BY <1>1, <1>2, <2>1, <2>2
<1>9. delayBufIdx' \in 0..(attack - 1)
  BY <1>1, <1>2 DEF NextIndex
<1> QED BY <1>2, <1>6, <1>7, <1>8, <1>9 DEF here

-----------------------------------------------------------------------------
\* A sample keeps its place in the window and in the delay line while it grows older.
LEMMA NextPlace ==
  ASSUME NEW n \in Nat \ {0}, NEW x \in 0..(n - 1), NEW i \in 1..n
  PROVE  LET Place(y, k) == IF k <= y THEN y - k ELSE y - k + n
         IN  /\ Place(x, i) \in 0..(n - 1)
             /\ Place(NextIndex(x, n), 1) = x
             /\ i < n => (Place(NextIndex(x, n), i + 1) = Place(x, i) /\ Place(x, i) # x)
             /\ Place(x, n) = x
BY DEF NextIndex

LEMMA ApplyParts ==
  ASSUME TypeOK, NEW level \in Level, NEW s \in Scalings, Apply(level, s)
  PROVE  \E stored \in Level :
           /\ RunningMax(stored, s) /\ Delay
           /\ recent' = [i \in 1..(MaxAttack + 1) |->
                           IF i = 1 THEN stored ELSE InScale(recent[i - 1], s)]
           /\ since' = Upto(Settled, since) /\ steady' = Upto(Settled, steady)
           /\ scaling' = s
           /\ UNCHANGED <<attack, channels, threshold, changes>>
<1> DEFINE stored == Larger(level, threshold \div s)
<1>1. threshold \in Nat /\ threshold \in Level /\ s \in Nat \ {0} /\ level \in Nat
  BY LimiterAssumption DEF TypeOK, Level
<1>2. threshold \div s \in Nat /\ threshold \div s <= threshold
  BY <1>1, QuotientKeepsOrder
<1>3. threshold \div s \in Level
  BY <1>1, <1>2, LimiterAssumption DEF Level
<1>4. stored \in Level
  BY <1>3 DEF Larger
<1>5. /\ RunningMax(stored, s) /\ Delay
      /\ recent' = [i \in 1..(MaxAttack + 1) |->
                      IF i = 1 THEN stored
                      ELSE IF s = scaling THEN recent[i - 1] ELSE Rescaled(recent[i - 1], s)]
      /\ since' = Upto(Settled, since) /\ steady' = Upto(Settled, steady)
      /\ scaling' = s
      /\ UNCHANGED <<attack, channels, threshold, changes>>
  BY DEF Apply
<1> HIDE DEF stored
<1>6. recent' = [i \in 1..(MaxAttack + 1) |->
                   IF i = 1 THEN stored ELSE InScale(recent[i - 1], s)]
  BY <1>5 DEF InScale
<1> QED BY <1>4, <1>5, <1>6

LEMMA ApplyKeepsTypes ==
  ASSUME TypeOK, NEW level \in Level, NEW s \in Scalings, Apply(level, s)
  PROVE  TypeOK'
<1>1. PICK stored \in Level :
        /\ RunningMax(stored, s) /\ Delay
        /\ recent' = [i \in 1..(MaxAttack + 1) |->
                        IF i = 1 THEN stored ELSE InScale(recent[i - 1], s)]
        /\ since' = Upto(Settled, since) /\ steady' = Upto(Settled, steady)
        /\ scaling' = s
        /\ UNCHANGED <<attack, channels, threshold, changes>>
  BY ApplyParts
<1>2. attack \in Nat \ {0} /\ attack <= MaxAttack /\ MaxAttack \in Nat
  BY Parameters
<1>3. maxBuf' \in [0..MaxAttack -> Level] /\ max' \in Level /\ lost' \in BOOLEAN
  BY <1>1, RunningMaxHolds
<1>4. maxBufIdx' \in 0..MaxAttack
  <2>1. maxBufIdx' \in 0..attack
    BY <1>1, RunningMaxHolds
  <2> QED BY <1>2, <2>1
<1>5. delayBuf' \in [Slot -> Delayed \cup {Cleared}]
  BY <1>1, DelayHolds
<1>6. delayBufIdx' \in 0..(MaxAttack - 1)
  <2>1. delayBufIdx' \in 0..(attack - 1)
    BY <1>1, DelayHolds
  <2> QED BY <1>2, <2>1
<1>7. recent' \in [1..(MaxAttack + 1) -> Level]
  <2>1. ASSUME NEW i \in 1..(MaxAttack + 1), i # 1
        PROVE  InScale(recent[i - 1], s) \in Level
    <3>1. i - 1 \in 1..(MaxAttack + 1)
      BY <1>2, <2>1
    <3>2. recent[i - 1] \in Level
      BY <3>1 DEF TypeOK
    <3>3. recent[i - 1] <= recent[i - 1]
      BY <3>2 DEF Level
    <3> QED BY <3>2, <3>3, InScaleKeepsOrder
  <2> QED BY <1>1, <2>1
<1>8. since' \in 0..Settled /\ steady' \in 0..Settled
  BY <1>1, <1>2 DEF TypeOK, Upto, Settled
<1>9. /\ attack' \in Attacks /\ channels' \in 1..MaxChannels /\ threshold' \in Thresholds
      /\ scaling' \in Scalings /\ changes' \in 0..MaxChanges
  BY <1>1 DEF TypeOK
<1> QED BY <1>3, <1>4, <1>5, <1>6, <1>7, <1>8, <1>9 DEF TypeOK, Delayed, Cleared, Level, Slot, Settled

LEMMA ChangeKeepsTypes ==
  ASSUME TypeOK, Change,
         attack' \in Attacks, channels' \in 1..MaxChannels, threshold' \in Thresholds,
         lost' \in BOOLEAN
  PROVE  TypeOK'
<1>1. changes' \in 0..MaxChanges
  BY LimiterAssumption DEF TypeOK, Change
<1>2. steady' \in 0..Settled
  BY Parameters DEF Change, Settled
<1> QED BY <1>1, <1>2 DEF TypeOK, Change, window, line, Delayed, Cleared, Level, Slot, Settled

LEMMA ResetKeepsTypes == ASSUME TypeOK, Reset PROVE TypeOK'
<1>1. /\ attack \in Nat \ {0} /\ attack <= MaxAttack /\ MaxAttack \in Nat \ {0} /\ 0 \in Level
      /\ MaxChanges \in Nat
  BY Parameters, LimiterAssumption DEF Level
<1>2. maxBuf' \in [0..MaxAttack -> Level] /\ delayBuf' \in [Slot -> Delayed \cup {Cleared}]
  BY <1>1 DEF TypeOK, Reset
<1>3. recent' \in [1..(MaxAttack + 1) -> Level]
  BY <1>1 DEF Reset
<1>4. /\ max' \in Level /\ maxBufIdx' \in 0..MaxAttack /\ delayBufIdx' \in 0..(MaxAttack - 1)
      /\ since' \in 0..Settled /\ steady' \in 0..Settled /\ lost' \in BOOLEAN
      /\ changes' \in 0..MaxChanges /\ scaling' \in Scalings
  <2>1. /\ max' = 0 /\ maxBufIdx' = 0 /\ delayBufIdx' = 0 /\ since' = 0 /\ changes' = 0
        /\ steady' = MaxAttack + 2 /\ lost' = FALSE /\ scaling' = 1
    BY DEF Reset, Settled
  <2>2. 1 \in Scalings
    BY LimiterAssumption
  <2>3. /\ 0 \in 0..MaxAttack /\ 0 \in 0..(MaxAttack - 1) /\ 0 \in 0..Settled
        /\ MaxAttack + 2 \in 0..Settled /\ 0 \in 0..MaxChanges
    BY <1>1 DEF Settled
  <2> QED BY <1>1, <2>1, <2>2, <2>3
<1> QED BY <1>2, <1>3, <1>4 DEF TypeOK, Reset, Delayed, Cleared, Level, Slot, Settled

-----------------------------------------------------------------------------
LEMMA ApplyKeepsOrder ==
  ASSUME IInv, NEW level \in Level, NEW s \in Scalings, Apply(level, s)
  PROVE  Indices' /\ Stored' /\ Found'
<1>1. PICK stored \in Level :
        /\ RunningMax(stored, s) /\ Delay
        /\ recent' = [i \in 1..(MaxAttack + 1) |->
                        IF i = 1 THEN stored ELSE InScale(recent[i - 1], s)]
        /\ since' = Upto(Settled, since) /\ steady' = Upto(Settled, steady)
        /\ scaling' = s
        /\ UNCHANGED <<attack, channels, threshold, changes>>
  BY ApplyParts DEF IInv
<1>2. /\ attack \in Nat \ {0} /\ attack <= MaxAttack /\ MaxAttack \in Nat
      /\ steady \in 0..Settled /\ maxBufIdx \in Nat
      /\ recent \in [1..(MaxAttack + 1) -> Level] /\ max \in Level
      /\ \A v \in Level : v \in Int
  BY Parameters DEF IInv, TypeOK, Level
<1>3. /\ maxBuf' = [WindowIn(s) EXCEPT ![maxBufIdx] = stored]
      /\ max' \in Level /\ (maxBufIdx <= attack => stored <= max')
      /\ maxBufIdx' = NextIndex(maxBufIdx, attack + 1)
      /\ maxBufIdx' \in 0..attack
      /\ \A i \in (0..attack) \ {maxBufIdx} :
            maxBuf[i] <= max => (maxBuf'[i] = InScale(maxBuf[i], s) /\ maxBuf'[i] <= max')
      /\ Found => Found'
  BY <1>1, RunningMaxHolds DEF IInv
<1>4. delayBufIdx' \in 0..(attack - 1)
  BY <1>1, DelayHolds DEF IInv
<1>5. Indices'
  BY <1>1, <1>2, <1>3, <1>4 DEF Indices
<1>6. Found'
  BY <1>3 DEF IInv
<1>7. Stored'
  <2> SUFFICES ASSUME NEW i \in 1..(attack + 1), i < steady'
               PROVE  maxBuf'[InWindow(i)'] = recent'[i] /\ recent'[i] <= max'
    BY <1>1 DEF Stored
  <2>1. /\ steady >= 1 /\ i <= steady /\ i \in 1..(MaxAttack + 1)
    BY <1>1, <1>2 DEF Upto, Settled
  <2>2. maxBufIdx \in 0..attack /\ maxBufIdx <= attack
    BY <1>2, <2>1 DEF IInv, Indices
  <2>3. InWindow(i)' = IF i <= NextIndex(maxBufIdx, attack + 1)
                       THEN NextIndex(maxBufIdx, attack + 1) - i
                       ELSE NextIndex(maxBufIdx, attack + 1) - i + attack + 1
    BY <1>1, <1>3 DEF InWindow
  <2>4. CASE i = 1
    <3>1. InWindow(i)' = maxBufIdx
      BY <1>2, <2>2, <2>3, <2>4 DEF NextIndex
    <3>2. maxBuf'[maxBufIdx] = stored
      <4>1. maxBufIdx \in 0..MaxAttack /\ WindowIn(s) \in [0..MaxAttack -> Level]
        BY WindowScaled DEF IInv, TypeOK
      <4> QED BY <1>3, <4>1
    <3>3. recent'[i] = stored
      BY <1>1, <2>1, <2>4
    <3> QED BY <1>3, <2>2, <3>1, <3>2, <3>3
  <2>5. CASE i # 1
    <3> DEFINE j == i - 1
    <3>1. j \in 1..attack /\ j < steady /\ j \in 1..(attack + 1) /\ j \in 1..(MaxAttack + 1)
      BY <1>2, <2>1, <2>5
    <3>2. maxBuf[InWindow(j)] = recent[j] /\ recent[j] <= max
      BY <3>1 DEF IInv, Stored
    <3>3. InWindow(i)' = InWindow(j) /\ InWindow(j) \in (0..attack) \ {maxBufIdx}
      BY <1>2, <2>2, <2>3, <2>5, <3>1 DEF InWindow, NextIndex
    <3>4. recent'[i] = InScale(recent[j], s)
      BY <1>1, <2>1, <2>5
    <3> QED BY <1>3, <3>2, <3>3, <3>4
  <2> QED BY <2>4, <2>5
<1> QED BY <1>5, <1>6, <1>7

LEMMA ApplyKeepsDelay ==
  ASSUME IInv, NEW level \in Level, NEW s \in Scalings, Apply(level, s)
  PROVE  Queued' /\ DelayIsExact'
<1>1. PICK stored \in Level :
        /\ RunningMax(stored, s) /\ Delay
        /\ since' = Upto(Settled, since) /\ steady' = Upto(Settled, steady)
        /\ UNCHANGED <<attack, channels, threshold, changes>>
  BY ApplyParts DEF IInv
<1>2. /\ attack \in Nat \ {0} /\ attack <= MaxAttack /\ MaxAttack \in Nat
      /\ channels \in Nat \ {0}
      /\ steady \in 0..Settled /\ since \in 0..Settled /\ delayBufIdx \in Nat
      /\ Settled = MaxAttack + 2
  BY Parameters DEF IInv, TypeOK, Settled
<1>3. /\ delayBufIdx' = NextIndex(delayBufIdx, attack)
      /\ out' = [k \in 0..(channels - 1) |-> delayBuf[delayBufIdx * channels + k]]
      /\ \A k \in 0..(channels - 1) :
            delayBuf'[delayBufIdx * channels + k] = [age |-> 1, channel |-> k]
      /\ \A q \in (0..(attack - 1)) \ {delayBufIdx}, k \in 0..(channels - 1) :
            delayBuf'[q * channels + k] = Older(delayBuf[q * channels + k])
  BY <1>1, DelayHolds DEF IInv
<1>4. Queued'
  <2> SUFFICES ASSUME NEW i \in 1..attack, NEW k \in 0..(channels - 1), i < steady'
               PROVE  delayBuf'[InLine(i)' * channels + k] =
                        IF i <= since' THEN [age |-> i, channel |-> k] ELSE Cleared
    BY <1>1 DEF Queued
  <2>1. steady >= 1 /\ i <= steady
    BY <1>1, <1>2 DEF Upto
  <2>2. delayBufIdx \in 0..(attack - 1)
    BY <1>2, <2>1 DEF IInv, Indices
  <2>3. InLine(i)' = IF i <= NextIndex(delayBufIdx, attack)
                     THEN NextIndex(delayBufIdx, attack) - i
                     ELSE NextIndex(delayBufIdx, attack) - i + attack
    BY <1>1, <1>3 DEF InLine
  <2>4. CASE i = 1
    <3>1. InLine(i)' = delayBufIdx
      BY <1>2, <2>2, <2>3, <2>4 DEF NextIndex
    <3>2. i <= since'
      BY <1>1, <1>2, <2>4 DEF Upto
    <3> QED BY <1>3, <2>4, <3>1, <3>2
  <2>5. CASE i # 1
    <3> DEFINE j == i - 1
               d == delayBuf[InLine(j) * channels + k]
    <3>1. j \in 1..attack /\ j < steady /\ j < attack
      BY <1>2, <2>1, <2>5
    <3>2. d = IF j <= since THEN [age |-> j, channel |-> k] ELSE Cleared
      BY <3>1 DEF IInv, Queued
    <3>3. InLine(i)' = InLine(j) /\ InLine(j) \in (0..(attack - 1)) \ {delayBufIdx}
      BY <1>2, <2>2, <2>3, <2>5, <3>1 DEF InLine, NextIndex
    <3>4. delayBuf'[InLine(i)' * channels + k] = Older(d)
      BY <1>3, <3>3
    <3>5. j <= since <=> i <= since'
      BY <1>1, <1>2, <3>1 DEF Upto
    <3>6. CASE j <= since
      <4>1. d = [age |-> j, channel |-> k] /\ d # Cleared
        BY <3>1, <3>2, <3>6 DEF Cleared
      <4>2. Smaller(j + 1, MaxAttack + 1) = i
        BY <1>2, <3>1 DEF Smaller
      <4>3. Older(d) = [age |-> i, channel |-> k]
        BY <4>1, <4>2 DEF Older
      <4> QED BY <3>4, <3>5, <3>6, <4>3
    <3>7. CASE ~(j <= since)
      <4>1. Older(d) = Cleared
        BY <3>2, <3>7 DEF Older
      <4> QED BY <3>4, <3>5, <3>7, <4>1
    <3> QED BY <3>6, <3>7
  <2> QED BY <2>4, <2>5
<1>5. DelayIsExact'
  <2> SUFFICES ASSUME steady' >= attack + 2, NEW k \in 0..(channels - 1)
               PROVE  out'[k] = IF since' <= attack THEN Cleared
                                ELSE [age |-> attack, channel |-> k]
    BY <1>1 DEF DelayIsExact
  <2>1. steady >= 1 /\ attack < steady
    BY <1>1, <1>2 DEF Upto
  <2>2. delayBufIdx < attack
    BY <2>1 DEF IInv, Indices
  <2>3. InLine(attack) = delayBufIdx
    BY <1>2, <2>2 DEF InLine
  <2>4. delayBuf[delayBufIdx * channels + k] =
          IF attack <= since THEN [age |-> attack, channel |-> k] ELSE Cleared
    BY <1>2, <2>1, <2>3 DEF IInv, Queued
  <2>5. attack <= since <=> ~(since' <= attack)
    BY <1>1, <1>2 DEF Upto
  <2> QED BY <1>3, <2>4, <2>5
<1> QED BY <1>4, <1>5

\* Nothing but the samples that come in brings order after a change: until then it
\* promises nothing.
LEMMA ChangeKeepsInvariant ==
  ASSUME IInv, Change, TypeOK', attack' \in Nat, (attack' < attack) => lost', lost => lost'
  PROVE  IInv'
<1>1. steady' = 0 /\ out' = << >> /\ max' = max /\ maxBuf' = maxBuf
  BY DEF Change, window
<1>2. Indices' /\ Stored' /\ Queued' /\ DelayIsExact'
  <2>1. Indices'
    BY <1>1 DEF Indices
  <2>2. Stored'
    <3>1. \A i \in 1..(attack' + 1) : ~(i < steady')
      BY <1>1
    <3> QED BY <3>1 DEF Stored
  <2>3. Queued'
    <3>1. \A i \in 1..attack' : ~(i < steady')
      BY <1>1
    <3> QED BY <3>1 DEF Queued
  <2>4. DelayIsExact'
    BY <1>1 DEF DelayIsExact
  <2> QED BY <2>1, <2>2, <2>3, <2>4
<1>3. Found'
  <2> SUFFICES ASSUME ~lost' PROVE \E j \in 0..attack' : maxBuf[j] = max
    BY <1>1 DEF Found
  <2>1. PICK j \in 0..attack : maxBuf[j] = max
    BY DEF IInv, Found
  <2>2. attack \in Nat
    BY Parameters DEF IInv
  <2>3. j \in 0..attack'
    BY <2>1, <2>2
  <2> QED BY <2>1, <2>3
<1> QED BY <1>2, <1>3 DEF IInv

\* The state that pcmLimiter_Reset leaves.
IsCleared ==
  /\ TypeOK
  /\ maxBufIdx = 0 /\ delayBufIdx = 0 /\ max = 0 /\ out = << >> /\ since = 0
  /\ steady = Settled
  /\ \A i \in 0..attack : maxBuf[i] = 0
  /\ \A p \in Slot : p < attack * channels => delayBuf[p] = Cleared
  /\ recent = [i \in 1..(MaxAttack + 1) |-> 0]

LEMMA ClearedIsInOrder == IsCleared => IInv
<1> SUFFICES ASSUME IsCleared PROVE IInv
  OBVIOUS
<1>0. /\ TypeOK
      /\ maxBufIdx = 0 /\ delayBufIdx = 0 /\ max = 0 /\ out = << >> /\ since = 0
      /\ steady = Settled
      /\ \A i \in 0..attack : maxBuf[i] = 0
      /\ \A p \in Slot : p < attack * channels => delayBuf[p] = Cleared
      /\ recent = [i \in 1..(MaxAttack + 1) |-> 0]
  BY DEF IsCleared
<1>1. /\ attack \in Nat \ {0} /\ attack <= MaxAttack /\ MaxAttack \in Nat
      /\ channels \in 1..MaxChannels /\ channels \in Nat \ {0} /\ MaxChannels \in Nat
  BY <1>0, Parameters DEF TypeOK
<1>2. Indices
  BY <1>0, <1>1 DEF Indices
<1>3. Stored
  <2> SUFFICES ASSUME NEW i \in 1..(attack + 1)
               PROVE  maxBuf[InWindow(i)] = recent[i] /\ recent[i] <= max
    BY DEF Stored
  <2>1. i \in 1..(MaxAttack + 1) /\ InWindow(i) \in 0..attack
    BY <1>0, <1>1 DEF InWindow
  <2>2. recent[i] = 0 /\ maxBuf[InWindow(i)] = 0
    BY <1>0, <2>1
  <2> QED BY <1>0, <2>2
<1>4. Found
  <2>1. 0 \in 0..attack
    BY <1>1
  <2> QED BY <1>0, <2>1 DEF Found
<1>5. Queued
  <2> SUFFICES ASSUME NEW i \in 1..attack, NEW k \in 0..(channels - 1)
               PROVE  delayBuf[InLine(i) * channels + k] =
                        IF i <= since THEN [age |-> i, channel |-> k] ELSE Cleared
    BY DEF Queued
  <2>1. InLine(i) \in 0..(attack - 1) /\ InLine(i) \in 0..(MaxAttack - 1)
    BY <1>0, <1>1 DEF InLine
  <2>2. InLine(i) * channels + k < attack * channels
    BY <1>1, <2>1, PlaceInMemory
  <2>3. InLine(i) * channels + k \in Slot
    BY <1>1, <2>1, PlaceInMemory DEF Slot
  <2>4. ~(i <= since)
    BY <1>0
  <2> QED BY <1>0, <2>2, <2>3, <2>4
<1>6. DelayIsExact
  BY <1>0 DEF DelayIsExact
<1> QED BY <1>0, <1>2, <1>3, <1>4, <1>5, <1>6 DEF IInv

LEMMA ClearedThenInOrder == IsCleared' => IInv'
BY ClearedIsInOrder, PTL

LEMMA InitInvariant == Init => IInv
<1> SUFFICES ASSUME Init PROVE IInv
  OBVIOUS
<1>1. /\ MaxAttack \in Nat \ {0} /\ MaxAttack \in Attacks /\ MaxChannels \in Nat \ {0}
      /\ MaxLevel \in Nat /\ 1 \in Scalings /\ MaxChanges \in Nat
  BY LimiterAssumption
<1>2. TypeOK
  <2>1. 0 \in Level /\ MaxChannels \in 1..MaxChannels /\ 0 \in 0..(MaxAttack - 1)
        /\ 0 \in 0..MaxAttack
    BY <1>1 DEF Level
  <2>2. 0 \in 0..Settled /\ Settled \in 0..Settled /\ 0 \in 0..MaxChanges
    BY <1>1 DEF Settled
  <2>3. /\ maxBuf \in [0..MaxAttack -> Level] /\ recent \in [1..(MaxAttack + 1) -> Level]
        /\ delayBuf \in [Slot -> Delayed \cup {Cleared}]
    BY <2>1 DEF Init
  <2> QED BY <1>1, <2>1, <2>2, <2>3 DEF Init, TypeOK
<1>3. \A i \in 0..attack : maxBuf[i] = 0
  BY <1>1 DEF Init
<1>4. \A p \in Slot : delayBuf[p] = Cleared
  BY DEF Init
<1> QED BY <1>2, <1>3, <1>4, ClearedIsInOrder DEF Init, IsCleared

LEMMA ResetKeepsInvariant == ASSUME IInv, Reset PROVE IInv'
<1>1. TypeOK'
  BY ResetKeepsTypes DEF IInv
<1>2. /\ maxBufIdx' = 0 /\ delayBufIdx' = 0 /\ max' = 0 /\ out' = << >> /\ since' = 0
      /\ steady' = Settled /\ recent' = [i \in 1..(MaxAttack + 1) |-> 0]
      /\ attack' = attack /\ channels' = channels
  BY DEF Reset
<1>3. \A i \in 0..attack' : maxBuf'[i] = 0
  <2>1. 0..attack \subseteq 0..MaxAttack
    BY Parameters DEF IInv
  <2> QED BY <1>2, <2>1 DEF Reset
<1>4. \A p \in Slot : p < attack' * channels' => delayBuf'[p] = Cleared
  BY <1>2 DEF Reset
<1>5. IsCleared'
  BY <1>1, <1>2, <1>3, <1>4 DEF IsCleared, Settled, Slot, Cleared
<1> QED BY <1>5, ClearedThenInOrder

LEMMA NextKeepsInvariant == IInv /\ [Next]_vars => IInv'
<1> SUFFICES ASSUME IInv, [Next]_vars PROVE IInv'
  OBVIOUS
<1>1. TypeOK /\ attack \in Nat /\ \A n \in Attacks : n \in Nat
  BY Parameters, LimiterAssumption DEF IInv
<1>2. ASSUME NEW level \in Level, NEW s \in Scalings, Apply(level, s)
      PROVE  IInv'
  BY <1>1, <1>2, ApplyKeepsTypes, ApplyKeepsOrder, ApplyKeepsDelay DEF IInv
<1>3. ASSUME NEW n \in Attacks, SetAttack(n)
      PROVE  IInv'
  <2>1. /\ Change /\ attack' = n /\ lost' = (lost \/ n < attack)
        /\ channels' = channels /\ threshold' = threshold
    BY <1>3 DEF SetAttack
  <2>2. /\ attack' \in Attacks /\ channels' \in 1..MaxChannels /\ threshold' \in Thresholds
        /\ attack' \in Nat
    BY <1>1, <2>1 DEF TypeOK
  <2>3. lost' \in BOOLEAN
    BY <2>1
  <2>4. TypeOK'
    BY <1>1, <2>1, <2>2, <2>3, ChangeKeepsTypes
  <2> QED BY <2>1, <2>2, <2>4, ChangeKeepsInvariant
<1>4. ASSUME NEW n \in 1..MaxChannels, SetNChannels(n)
      PROVE  IInv'
  <2>1. /\ Change /\ attack' = attack /\ lost' = lost
        /\ channels' = n /\ threshold' = threshold
    BY <1>4 DEF SetNChannels
  <2>2. TypeOK'
    BY <1>1, <2>1, ChangeKeepsTypes DEF TypeOK
  <2> QED BY <1>1, <2>1, <2>2, ChangeKeepsInvariant
<1>5. ASSUME NEW level \in Thresholds, SetThreshold(level)
      PROVE  IInv'
  <2>1. /\ Change /\ attack' = attack /\ lost' = lost
        /\ channels' = channels /\ threshold' = level
    BY <1>5 DEF SetThreshold
  <2>2. TypeOK'
    BY <1>1, <2>1, ChangeKeepsTypes DEF TypeOK
  <2> QED BY <1>1, <2>1, <2>2, ChangeKeepsInvariant
<1>6. CASE Reset
  BY <1>6, ResetKeepsInvariant
<1>7. CASE UNCHANGED vars
  BY <1>7 DEF IInv, TypeOK, Indices, Stored, Found, Queued, DelayIsExact, InWindow, InLine,
     vars, window, line, history, Delayed, Cleared, Level, Slot, Settled
<1> QED BY <1>2, <1>3, <1>4, <1>5, <1>6, <1>7 DEF Next

THEOREM InvariantHolds == Spec => []IInv
BY InitInvariant, NextKeepsInvariant, PTL DEF Spec

-----------------------------------------------------------------------------
\* Whatever is changed when, the indices of pcmLimiter_Apply stay in the memory that
\* pcmLimiter_Create has allocated.
THEOREM LimiterTypeCorrect == Spec => []TypeOK
<1>1. IInv => TypeOK
  BY DEF IInv
<1> QED BY <1>1, InvariantHolds, PTL

\* The window is full of samples that came in since the change, and the maximum, which
\* is one of its levels, is not less than any of them.
LEMMA FullWindow == IInv => MaximumIsRunning
<1> SUFFICES ASSUME IInv, steady >= attack + 2, ~lost
             PROVE  /\ max \in {recent[i] : i \in 1..(attack + 1)}
                    /\ \A i \in 1..(attack + 1) : recent[i] <= max
  BY DEF MaximumIsRunning
<1>1. attack \in Nat /\ steady \in Nat /\ maxBufIdx \in 0..attack
  BY Parameters DEF IInv, Indices
<1>2. \A i \in 1..(attack + 1) : maxBuf[InWindow(i)] = recent[i] /\ recent[i] <= max
  BY <1>1 DEF IInv, Stored
<1>3. PICK j \in 0..attack : maxBuf[j] = max
  BY DEF IInv, Found
<1> DEFINE i == IF j < maxBufIdx THEN maxBufIdx - j ELSE maxBufIdx - j + attack + 1
<1>4. i \in 1..(attack + 1) /\ InWindow(i) = j
  BY <1>1, <1>3 DEF InWindow
<1> QED BY <1>2, <1>3, <1>4

\* The running maximum, searched for only now and then, is the maximum of the window.
THEOREM MaximumIsTrue == Spec => []MaximumIsRunning
BY FullWindow, InvariantHolds, PTL

\* The delay of every channel is the one that is announced, for any attack time.
THEOREM DelayIsTrue == Spec => []DelayIsExact
<1>1. IInv => DelayIsExact
  BY DEF IInv
<1> QED BY <1>1, InvariantHolds, PTL
=============================================================================
