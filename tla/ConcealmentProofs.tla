------------------------- MODULE ConcealmentProofs -------------------------
(***************************************************************************)
(* What Concealment guarantees for every fade table, every slope length    *)
(* and every choice of methods: that its counters stay inside the table of *)
(* fade factors (TypeOK), and, unless the method is switched, that a       *)
(* fade-out never reads past the frame that is stored (OffsetsFitGroup)    *)
(* and that noise substitution renders every spectrum with the windows it  *)
(* was coded with (WindowsFitSpectrum).  The second half, from FadesByOne  *)
(* on, follows the counts: a channel falls silent after enough lost frames *)
(* (FallsSilent) and is back after enough good ones (Recovers), its slopes *)
(* never turn (SlopesKeepDirection), its output never goes back in the     *)
(* stream (NeverReplays), and energy interpolation delays it by one frame  *)
(* (DelaysOneFrame).                                                       *)
(***************************************************************************)
EXTENDS Concealment, TLAPS, WellFoundedInduction, SequenceTheorems

-----------------------------------------------------------------------------
\* Every set of natural numbers but the empty one has a least element.
LEMMA LeastNatural ==
  ASSUME NEW T \in SUBSET Nat, T # {}
  PROVE  \E m \in T : \A n \in T : m <= n
<1> DEFINE R == OpToRel(<, Nat)
<1>1. IsWellFoundedOn(R, Nat)
  BY NatLessThanWellFounded, Zenon
<1> HIDE DEF R
<1>2. PICK m \in T : \A n \in T : ~ (<<n, m>> \in R)
  BY <1>1, WFMin, Zenon
<1>3. ASSUME NEW n \in T PROVE m <= n
  <2>1. ~ (<<n, m>> \in OpToRel(<, Nat))
    BY <1>2, Zenon DEF R
  <2>2. ~ (n < m)
    <3>1. n < m => <<n, m>> \in OpToRel(<, Nat)
      BY Zenon DEF OpToRel
    <3> QED BY <3>1, <2>1, Zenon
  <2> QED BY <2>2
<1> QED BY <1>3
-----------------------------------------------------------------------------
\* findEquiFadeFrame finds an index of the table, and the factor itself, or an
\* equal one before it, when it looks for a factor of the table.
LEMMA NearestExists ==
  ASSUME NEW r \in Nat
  PROVE  /\ NearestFactor(r) \in FactorIndex
         /\ \A j \in FactorIndex :
              \/ FactorDistance(NearestFactor(r), r) < FactorDistance(j, r)
              \/ /\ FactorDistance(NearestFactor(r), r) = FactorDistance(j, r)
                 /\ NearestFactor(r) <= j
<1> DEFINE D(k) == FactorDistance(k, r)
<1>1. \A k \in FactorIndex : D(k) \in Nat
  <2> TAKE k \in FactorIndex
  <2>1. FadeFactor[k] \in Nat
    BY ConcealAssumption
  <2>2. FadeFactor[k] \div 2 \in Nat
    BY <2>1
  <2> QED BY <2>2 DEF FactorDistance, Distance
<1>2. 0 \in FactorIndex /\ FactorIndex \subseteq Nat
  BY ConcealAssumption DEF FactorIndex
<1> HIDE DEF D
<1>3. PICK m \in {D(k) : k \in FactorIndex} : \A n \in {D(k) : k \in FactorIndex} : m <= n
  <2>1. {D(k) : k \in FactorIndex} \in SUBSET Nat /\ {D(k) : k \in FactorIndex} # {}
    BY <1>1, <1>2
  <2> QED BY <2>1, LeastNatural
<1>4. PICK i \in {k \in FactorIndex : D(k) = m} : \A j \in {k \in FactorIndex : D(k) = m} : i <= j
  <2>1. {k \in FactorIndex : D(k) = m} \in SUBSET Nat /\ {k \in FactorIndex : D(k) = m} # {}
    BY <1>2, <1>3
  <2> QED BY <2>1, LeastNatural
<1>5. \A j \in FactorIndex : D(i) < D(j) \/ (D(i) = D(j) /\ i <= j)
  <2> TAKE j \in FactorIndex
  <2>1. D(i) = m /\ m <= D(j)
    BY <1>3, <1>4
  <2>2. D(j) = m => i <= j
    BY <1>4
  <2>3. D(i) \in Nat /\ D(j) \in Nat
    BY <1>1, <1>4
  <2> QED BY <2>1, <2>2, <2>3
<1>6. i \in FactorIndex
  BY <1>4
<1> QED BY <1>5, <1>6, Zenon DEF NearestFactor, D

LEMMA EquiFadeInRange ==
  ASSUME NEW index \in (-1)..(NumFactors - 1)
  PROVE  EquiFadeIn(index) \in 0..NumFadeIn
<1>1. Reference(index) \in Nat
  <2>1. index >= 0 => FadeFactor[index] \in Nat
    BY ConcealAssumption DEF FactorIndex
  <2> QED BY <2>1, ConcealAssumption DEF Reference
<1>2. NearestFactor(Reference(index)) \in FactorIndex
  BY <1>1, NearestExists
<1> QED BY <1>2, ConcealAssumption DEF EquiFadeIn, FactorIndex

LEMMA EquiFadeOutRange ==
  ASSUME NEW index \in FactorIndex
  PROVE  EquiFadeOut(index) \in 0..(index + 1) /\ EquiFadeOut(index) \in FactorIndex
<1> index \in Int /\ index >= 0
  BY ConcealAssumption DEF FactorIndex
<1>1. FadeFactor[index] \in Nat /\ FadeFactor[index] \div 2 \in Nat
  <2>1. FadeFactor[index] \in Nat
    BY ConcealAssumption
  <2> QED BY <2>1
<1>2. Reference(index) = FadeFactor[index] \div 2
  BY DEF Reference
<1> DEFINE r == Reference(index)
           i == NearestFactor(r)
<1>3. r \in Nat
  BY <1>1, <1>2
<1>4. FactorDistance(index, r) = 0
  BY <1>1, <1>2 DEF FactorDistance, Distance
<1> HIDE DEF r
<1>5. i \in FactorIndex
  BY <1>3, NearestExists
<1>6. \/ FactorDistance(i, r) < FactorDistance(index, r)
      \/ i <= index
  BY <1>3, NearestExists
<1>7. FactorDistance(i, r) \in Int /\ FactorDistance(i, r) >= 0
  <2> HIDE DEF i
  <2>1. FadeFactor[i] \in Nat
    BY <1>5, ConcealAssumption
  <2>2. FadeFactor[i] \div 2 \in Nat
    BY <2>1
  <2> QED BY <1>3, <2>2 DEF FactorDistance, Distance
<1>8. i <= index
  <2> HIDE DEF i
  <2> QED BY <1>4, <1>6, <1>7
<1>9. EquiFadeOut(index) \in {i, i + 1} /\ (EquiFadeOut(index) = i + 1 => i < NumFactors - 1)
  <2>1. EquiFadeOut(index)
          = IF FadeFactor[i] \div 2 >= r /\ i < NumFactors - 1 THEN i + 1 ELSE i
    BY DEF EquiFadeOut, r
  <2>2. i \in Int
    BY <1>5, ConcealAssumption DEF FactorIndex
  <2> HIDE DEF i
  <2> QED BY <2>1, <2>2
<1> HIDE DEF i
<1> QED BY <1>5, <1>8, <1>9, ConcealAssumption DEF FactorIndex

-----------------------------------------------------------------------------
\* c + r divided by s, c less than s, is at most r.
LEMMA DivBound ==
  ASSUME NEW s \in Nat \ {0}, NEW c \in 0..(s - 1), NEW r \in Nat
  PROVE  (c + r) \div s \in 0..r
<1> DEFINE q == (c + r) \div s
<1>1. q \in Nat /\ s * q <= c + r
  OBVIOUS
<1> HIDE DEF q
<1>2. q >= r + 1 => s * q >= s * (r + 1)
  BY <1>1, SMTT(30)
<1>3. s * (r + 1) >= r + s
  <2>1. s * (r + 1) = s * r + s
    OBVIOUS
  <2>2. s * r >= r
    OBVIOUS
  <2> QED BY <2>1, <2>2
<1>4. q <= r
  BY <1>1, <1>2, <1>3
<1> QED BY <1>1, <1>4 DEF q

\* A frame of repeated windows moves the fade on by at most NumShort steps and
\* leaves offsets that are offsets into the group.
LEMMA WindowSteps ==
  ASSUME NEW i \in Info, NEW m \in 0..1
  PROVE  /\ GroupLen(i) \in Nat \ {0}
         /\ NextOffset(i, m) \in Offsets
         /\ NextOffset(i, m).winGrp < GroupLen(i)
         /\ FadeSteps(i, m) \in 0..NumShort
<1>1. GroupLen(i) \in Nat \ {0} /\ NumWindows(i) \in 1..NumShort /\ i.lastWinGrpLen \in Nat
  BY ConcealAssumption DEF GroupLen, NumWindows, Info
<1>2. AttIdxStride(i) \in Nat \ {0}
  <2> DEFINE s == NumWindows(i) \div (i.lastWinGrpLen + 1)
  <2>1. s \in Int
    <3>1. NumWindows(i) \in Nat /\ i.lastWinGrpLen + 1 \in Nat \ {0}
      BY <1>1
    <3> QED BY <3>1
  <2> HIDE DEF s
  <2>2. AttIdxStride(i) = IF s >= 1 THEN s ELSE 1
    BY DEF AttIdxStride, s
  <2> QED BY <2>1, <2>2
<1> DEFINE g == GroupLen(i)
           t == AttIdxStride(i)
           w == NumWindows(i)
           cw == Clip(i.offset[m].winGrp, g)
           ca == Clip(i.offset[m].attGrp, t)
           r == Repeats(i, m)
<1> HIDE DEF g, t, w
<1>3. g \in Nat \ {0} /\ t \in Nat \ {0} /\ w \in Nat /\ w <= NumShort
  BY <1>1, <1>2, ConcealAssumption DEF g, t, w
<1>4. cw \in 0..(g - 1) /\ ca \in 0..(t - 1)
  <2>1. i.offset[m].winGrp \in Nat /\ i.offset[m].attGrp \in Nat
    BY DEF Info, Offsets
  <2> QED BY <1>3, <2>1 DEF Clip
<1>5. r = (cw + w) \div g
  BY DEF Repeats, g, w
<1> HIDE DEF cw, ca, r
<1>6. r \in 0..w
  <2>1. (cw + w) \div g \in 0..w
    BY <1>3, <1>4, DivBound
  <2> QED BY <1>5, <2>1
<1>7. FadeSteps(i, m) = (ca + r) \div t
  BY DEF FadeSteps, ca, r, t
<1>8. (ca + r) \div t \in 0..r
  <2>1. r \in Nat
    BY <1>3, <1>6
  <2> QED BY <1>3, <1>4, <2>1, DivBound
<1>9. FadeSteps(i, m) \in 0..NumShort
  BY <1>3, <1>6, <1>7, <1>8, ConcealAssumption
<1>10. NextOffset(i, m) = [winGrp |-> (cw + w) % g, attGrp |-> (ca + r) % t]
  BY DEF NextOffset, cw, ca, r, g, t, w
<1>11. (cw + w) % g \in 0..(g - 1) /\ (ca + r) % t \in Nat
  <2>1. cw + w \in Nat /\ ca + r \in Nat
    BY <1>3, <1>4, <1>6
  <2> QED BY <1>3, <2>1
<1> QED BY <1>3, <1>9, <1>10, <1>11 DEF Offsets, g

-----------------------------------------------------------------------------
\* What the operations on the channel's data do to the fields the state
\* machines read.
LEMMA CountsFadeOut ==
  ASSUME NEW i \in Info, i.cntFadeFrames + NumShort <= NumFactors
  PROVE  /\ CountFadeOut(i) \in Info
         /\ CountFadeOut(i).concealState = i.concealState
         /\ CountFadeOut(i).cntFadeFrames \in i.cntFadeFrames..(i.cntFadeFrames + NumShort)
<1> DEFINE n == FadeSteps(i, 0)
           o == NextOffset(i, 0)
           b == InRange(i, 0)
<1>1. n \in 0..NumShort /\ o \in Offsets
  BY WindowSteps
<1>2. b \in BOOLEAN
  BY DEF InRange
<1>3. CountFadeOut(i) = [i EXCEPT !.cntFadeFrames = @ + n, !.offset[0] = o, !.inRange = @ /\ b]
  BY DEF CountFadeOut
<1> HIDE DEF n, o, b
<1>4. /\ i.cntFadeFrames + n \in (-1)..NumFactors
      /\ i.cntFadeFrames + n \in i.cntFadeFrames..(i.cntFadeFrames + NumShort)
  BY <1>1, ConcealAssumption DEF Info
<1>5. [i.offset EXCEPT ![0] = o] \in [0..1 -> Offsets]
  BY <1>1 DEF Info
<1>6. (i.inRange /\ b) \in BOOLEAN
  BY <1>2 DEF Info
<1> DEFINE c == i.cntFadeFrames + n
           p == [i.offset EXCEPT ![0] = o]
           q == i.inRange /\ b
<1>7. CountFadeOut(i) = [i EXCEPT !.cntFadeFrames = c, !.offset = p, !.inRange = q]
  BY <1>3 DEF Info
<1> HIDE DEF c, p, q
<1>8. c \in (-1)..NumFactors /\ p \in [0..1 -> Offsets] /\ q \in BOOLEAN
  BY <1>4, <1>5, <1>6 DEF c, p, q
<1>9. CountFadeOut(i) \in Info /\ CountFadeOut(i).concealState = i.concealState
  BY <1>7, <1>8 DEF Info
<1>10. CountFadeOut(i).cntFadeFrames = c
  BY <1>7 DEF Info
<1> QED BY <1>4, <1>9, <1>10 DEF c

LEMMA RendersFadeOut ==
  ASSUME NEW i \in Info
  PROVE  /\ RenderFadeOut(i) \in Info
         /\ RenderFadeOut(i).concealState = i.concealState
         /\ RenderFadeOut(i).cntFadeFrames = i.cntFadeFrames
<1> DEFINE o == NextOffset(i, 1)
           b == InRange(i, 1)
<1>1. o \in Offsets
  BY WindowSteps
<1>2. b \in BOOLEAN
  BY DEF InRange
<1>3. RenderFadeOut(i) = [i EXCEPT !.offset[1] = o, !.inRange = @ /\ b]
  BY DEF RenderFadeOut
<1> HIDE DEF o, b
<1>4. [i.offset EXCEPT ![1] = o] \in [0..1 -> Offsets]
  BY <1>1 DEF Info
<1> DEFINE p == [i.offset EXCEPT ![1] = o]
           q == i.inRange /\ b
<1>5. RenderFadeOut(i) = [i EXCEPT !.offset = p, !.inRange = q]
  BY <1>3 DEF Info
<1>6. p \in [0..1 -> Offsets] /\ q \in BOOLEAN
  BY <1>2, <1>4 DEF Info
<1> HIDE DEF p, q
<1> QED BY <1>5, <1>6 DEF Info

LEMMA Enters ==
  ASSUME NEW i \in Info, NEW s \in States
  PROVE  /\ Enter(i, s) \in Info
         /\ Enter(i, s).concealState = s
         /\ Enter(i, s).cntFadeFrames = i.cntFadeFrames
BY DEF Enter, Info

LEMMA ResetsWindows ==
  ASSUME NEW i \in Info
  PROVE  /\ ResetOffsets(i) \in Info
         /\ ResetOffsets(i).concealState = i.concealState
         /\ ResetOffsets(i).cntFadeFrames = i.cntFadeFrames
BY DEF ResetOffsets, Info, Offsets, NoOffsets

LEMMA CountsValid ==
  ASSUME NEW i \in Info, NEW v \in BOOLEAN
  PROVE  /\ CountValid(i, v) \in Info
         /\ CountValid(i, v).concealState = i.concealState
         /\ CountValid(i, v).cntFadeFrames = i.cntFadeFrames
BY DEF CountValid, Info

LEMMA SetsCount ==
  ASSUME NEW i \in Info, NEW n \in (-1)..NumFactors
  PROVE  /\ [i EXCEPT !.cntFadeFrames = n] \in Info
         /\ [i EXCEPT !.cntFadeFrames = n].concealState = i.concealState
         /\ [i EXCEPT !.cntFadeFrames = n].cntFadeFrames = n
BY DEF Info

-----------------------------------------------------------------------------
\* The count a state is left with is an index of the slope it belongs to.
Bounded(i) ==
  /\ i.concealState \in {"Single", "FadeOut"} => i.cntFadeFrames < NumFactors
  /\ i.concealState = "FadeIn" => i.cntFadeFrames \in 0..NumFadeIn
Sound(i) == i \in Info /\ Bounded(i)

LEMMA Constants ==
  /\ NumFactors \in Nat /\ NumFadeOut \in 0..(NumFactors - 1) /\ NumFadeIn \in 0..(NumFactors - 1)
  /\ NumShort \in Nat /\ NumMuteRelease \in Nat
  /\ NumFadeOut + NumShort <= NumFactors /\ NumFadeIn + NumShort < NumFactors
BY ConcealAssumption DEF FactorIndex

LEMMA CountTyped == \A i \in Info : i.cntFadeFrames \in Int /\ i.cntFadeFrames \in (-1)..NumFactors
BY Constants DEF Info

LEMMA EnterSound ==
  ASSUME NEW i \in Info, NEW s \in {"Ok", "Mute"}
  PROVE  Sound(Enter(i, s))
BY Enters DEF Sound, Bounded, States

LEMMA FadesIn ==
  ASSUME NEW i \in Info, NEW n \in Int, n <= NumFadeIn, NumFadeIn > 0 => n >= 0
  PROVE  Sound(FadeInOrOk(i, n))
<1>1. CASE NumFadeIn > 0
  <2>1. n \in 0..NumFadeIn /\ n \in (-1)..NumFactors
    BY <1>1, Constants
  <2>2. FadeInOrOk(i, n) = [i EXCEPT !.concealState = "FadeIn", !.cntFadeFrames = n]
    BY <1>1 DEF FadeInOrOk
  <2>3. /\ FadeInOrOk(i, n) \in Info
        /\ FadeInOrOk(i, n).concealState = "FadeIn"
        /\ FadeInOrOk(i, n).cntFadeFrames = n
    BY <2>1, <2>2 DEF Info, States
  <2> QED BY <2>1, <2>3 DEF Sound, Bounded
<1>2. CASE ~ (NumFadeIn > 0)
  BY <1>2, EnterSound DEF FadeInOrOk
<1> QED BY <1>1, <1>2

LEMMA FadesOut ==
  ASSUME NEW i \in Info, i.cntFadeFrames + NumShort < NumFactors,
         NEW s \in {"Single", "FadeOut"}
  PROVE  Sound(CountFadeOut(Enter(i, s)))
<1> DEFINE j == Enter(i, s)
<1>1. j \in Info /\ j.concealState = s /\ j.cntFadeFrames = i.cntFadeFrames
  BY Enters DEF States
<1> HIDE DEF j
<1>2. i.cntFadeFrames \in Int /\ NumFactors \in Nat /\ NumShort \in Nat
  BY CountTyped, Constants
<1>3. /\ CountFadeOut(j) \in Info /\ CountFadeOut(j).concealState = s
      /\ CountFadeOut(j).cntFadeFrames \in i.cntFadeFrames..(i.cntFadeFrames + NumShort)
  BY <1>1, <1>2, CountsFadeOut
<1>4. CountFadeOut(j).cntFadeFrames < NumFactors
  BY <1>2, <1>3
<1> QED BY <1>3, <1>4 DEF Sound, Bounded, j

\* Noise substitution, one state after the other.
LEMMA NoiseOkSound ==
  ASSUME NEW i \in Info, i.concealState = "Ok", NEW ok \in BOOLEAN
  PROVE  Sound(NoiseOk(i, ok))
<1> DEFINE j == ResetOffsets([i EXCEPT !.cntFadeFrames = 0, !.cntValidFrames = 0])
<1>1. j \in Info /\ j.cntFadeFrames = 0
  <2> DEFINE k == [i EXCEPT !.cntFadeFrames = 0, !.cntValidFrames = 0]
  <2>1. k \in Info /\ k.cntFadeFrames = 0
    <3>1. 0 \in (-1)..NumFactors /\ 0 \in Nat
      BY Constants
    <3> QED BY <3>1 DEF Info
  <2> HIDE DEF k
  <2> QED BY <2>1, ResetsWindows DEF k
<1>2. NoiseOk(i, ok) = IF ok THEN i
                       ELSE IF NumFadeOut > 0 THEN CountFadeOut(Enter(j, "Single"))
                                              ELSE Enter(j, "Mute")
  BY DEF NoiseOk
<1> HIDE DEF j
<1>3. NumFadeOut > 0 => 0 + NumShort < NumFactors
  BY Constants
<1>4. NumFadeOut > 0 => Sound(CountFadeOut(Enter(j, "Single")))
  BY <1>1, <1>3, FadesOut
<1>5. Sound(Enter(j, "Mute"))
  BY <1>1, EnterSound
<1>6. Sound(i)
  BY DEF Sound, Bounded
<1> QED BY <1>2, <1>4, <1>5, <1>6

LEMMA NoiseSingleSound ==
  ASSUME NEW i \in Info, NEW ok \in BOOLEAN
  PROVE  Sound(NoiseSingle(i, ok))
<1>1. ~ FadedOut(i) => i.cntFadeFrames + NumShort < NumFactors
  BY CountTyped, Constants DEF FadedOut
<1>2. ~ FadedOut(i) => Sound(CountFadeOut(Enter(i, "FadeOut")))
  BY <1>1, FadesOut
<1>3. Sound(Enter(i, "Ok")) /\ Sound(Enter(i, "Mute"))
  BY EnterSound
<1> QED BY <1>2, <1>3 DEF NoiseSingle

LEMMA Holds ==
  ASSUME NEW i \in Info, NEW ok \in BOOLEAN
  PROVE  /\ HoldOffsets(i, ok) \in Info
         /\ HoldOffsets(i, ok).concealState = i.concealState
         /\ HoldOffsets(i, ok).cntFadeFrames = i.cntFadeFrames
BY ResetsWindows DEF HoldOffsets

LEMMA EquiFadesIn ==
  ASSUME NEW i \in Info, i.cntFadeFrames < NumFactors
  PROVE  EquiFadeIn(i.cntFadeFrames) \in Int /\ EquiFadeIn(i.cntFadeFrames) \in 0..NumFadeIn
<1>1. i.cntFadeFrames \in (-1)..(NumFactors - 1)
  BY CountTyped, Constants
<1> QED BY <1>1, EquiFadeInRange, Constants

LEMMA NoiseFadeOutSound ==
  ASSUME NEW i \in Info, NEW ok \in BOOLEAN,
         i.concealState = "FadeOut", i.cntFadeFrames < NumFactors
  PROVE  Sound(NoiseFadeOut(i, ok))
<1> DEFINE h == HoldOffsets(i, ok)
<1>1. h \in Info /\ h.concealState = "FadeOut" /\ h.cntFadeFrames = i.cntFadeFrames
  BY Holds
<1>2. NoiseFadeOut(i, ok) = IF Released(i) THEN FadeInOrOk(i, EquiFadeIn(i.cntFadeFrames))
                            ELSE IF FadedOut(i) THEN Enter(h, "Mute") ELSE CountFadeOut(h)
  BY DEF NoiseFadeOut
<1> HIDE DEF h
<1>3. Sound(FadeInOrOk(i, EquiFadeIn(i.cntFadeFrames)))
  <2>1. EquiFadeIn(i.cntFadeFrames) <= NumFadeIn /\ EquiFadeIn(i.cntFadeFrames) >= 0
    BY EquiFadesIn, Constants
  <2> QED BY <2>1, EquiFadesIn, FadesIn
<1>4. Sound(Enter(h, "Mute"))
  BY <1>1, EnterSound
<1>5. ~ FadedOut(i) => Sound(CountFadeOut(h))
  <2> HAVE ~ FadedOut(i)
  <2>1. h.cntFadeFrames + NumShort < NumFactors
    BY <1>1, CountTyped, Constants DEF FadedOut
  <2>2. Enter(h, "FadeOut") = h
    BY <1>1 DEF Enter, Info
  <2>3. Sound(CountFadeOut(Enter(h, "FadeOut")))
    BY <1>1, <2>1, FadesOut
  <2> QED BY <2>2, <2>3
<1> QED BY <1>2, <1>3, <1>4, <1>5

LEMMA NoiseMuteSound ==
  ASSUME NEW i \in Info, i.concealState = "Mute", NEW ok \in BOOLEAN
  PROVE  Sound(NoiseMute(i, ok))
<1>1. Sound(FadeInOrOk(i, NumFadeIn - 1))
  BY FadesIn, Constants
<1>2. Sound(HoldOffsets(i, ok))
  BY Holds DEF Sound, Bounded
<1> QED BY <1>1, <1>2 DEF NoiseMute

LEMMA NoiseFadeInSound ==
  ASSUME NEW i \in Info, NEW ok \in BOOLEAN,
         i.concealState = "FadeIn", i.cntFadeFrames \in 0..NumFadeIn
  PROVE  Sound(NoiseFadeIn(i, ok))
<1> DEFINE c == i.cntFadeFrames - 1
           j == [i EXCEPT !.cntFadeFrames = c]
           d == EquiFadeOut(i.cntFadeFrames) - 1
           k == ResetOffsets([i EXCEPT !.cntFadeFrames = d])
<1>1. c \in Int /\ c \in (-1)..(NumFadeIn - 1) /\ c \in (-1)..NumFactors
  BY Constants
<1>2. d \in Int /\ d <= NumFadeIn /\ d \in (-1)..NumFactors
  <2>1. i.cntFadeFrames \in FactorIndex
    BY Constants DEF FactorIndex
  <2>2. EquiFadeOut(i.cntFadeFrames) \in 0..(i.cntFadeFrames + 1)
    BY <2>1, EquiFadeOutRange
  <2>3. i.cntFadeFrames \in Int
    BY CountTyped
  <2> QED BY <2>2, <2>3, Constants
<1>3. NoiseFadeIn(i, ok) =
        IF ok THEN IF c < 0 THEN Enter(j, "Ok") ELSE j
        ELSE IF NumFadeOut > 0 THEN CountFadeOut(Enter(k, "FadeOut")) ELSE Enter(j, "Mute")
  <2>1. j.cntFadeFrames = c
    BY DEF Info
  <2> QED BY <2>1 DEF NoiseFadeIn
<1> HIDE DEF c, d
<1>4. j \in Info /\ j.concealState = "FadeIn" /\ j.cntFadeFrames = c
  BY <1>1, SetsCount
<1>5. k \in Info /\ k.cntFadeFrames = d
  <2> DEFINE l == [i EXCEPT !.cntFadeFrames = d]
  <2>1. l \in Info /\ l.cntFadeFrames = d
    BY <1>2, SetsCount
  <2> HIDE DEF l
  <2> QED BY <2>1, ResetsWindows DEF l
<1> HIDE DEF j, k
<1>6. Sound(Enter(j, "Ok")) /\ Sound(Enter(j, "Mute"))
  BY <1>4, EnterSound
<1>7. ~ (c < 0) => Sound(j)
  <2> HAVE ~ (c < 0)
  <2>1. c \in 0..NumFadeIn
    BY <1>1, Constants
  <2> QED BY <1>4, <2>1 DEF Sound, Bounded
<1>8. Sound(CountFadeOut(Enter(k, "FadeOut")))
  <2>1. k.cntFadeFrames + NumShort < NumFactors
    BY <1>2, <1>5, Constants
  <2> QED BY <1>5, <2>1, FadesOut
<1> QED BY <1>3, <1>6, <1>7, <1>8

LEMMA UpdateNoiseSound ==
  ASSUME NEW i, Sound(i), NEW ok \in BOOLEAN
  PROVE  Sound(UpdateNoise(i, ok))
<1> DEFINE j == CountValid(i, ok)
<1>1. i \in Info /\ Bounded(i)
  BY DEF Sound
<1>2. j \in Info /\ j.concealState = i.concealState /\ j.cntFadeFrames = i.cntFadeFrames
  BY <1>1, CountsValid
<1>3. i.concealState \in States
  BY <1>1 DEF Info
<1>4. UpdateNoise(i, ok) =
        CASE i.concealState = "Ok"      -> NoiseOk(j, ok)
          [] i.concealState = "Single"  -> NoiseSingle(j, ok)
          [] i.concealState = "FadeOut" -> NoiseFadeOut(j, ok)
          [] i.concealState = "Mute"    -> NoiseMute(j, ok)
          [] i.concealState = "FadeIn"  -> NoiseFadeIn(j, ok)
  BY DEF UpdateNoise
<1> HIDE DEF j
<1>5. CASE i.concealState = "Ok"
  BY <1>2, <1>4, <1>5, NoiseOkSound
<1>6. CASE i.concealState = "Single"
  BY <1>2, <1>4, <1>6, NoiseSingleSound
<1>7. CASE i.concealState = "FadeOut"
  <2>1. j.cntFadeFrames < NumFactors
    BY <1>1, <1>2, <1>7 DEF Bounded
  <2> QED BY <1>2, <1>4, <1>7, <2>1, NoiseFadeOutSound
<1>8. CASE i.concealState = "Mute"
  BY <1>2, <1>4, <1>8, NoiseMuteSound
<1>9. CASE i.concealState = "FadeIn"
  <2>1. j.cntFadeFrames \in 0..NumFadeIn
    BY <1>1, <1>2, <1>9 DEF Bounded
  <2> QED BY <1>2, <1>4, <1>9, <2>1, NoiseFadeInSound
<1> QED BY <1>3, <1>5, <1>6, <1>7, <1>8, <1>9 DEF States

\* Energy interpolation, one state after the other.
LEMMA InterOkSound ==
  ASSUME NEW i \in Info, i.concealState = "Ok", NEW ok \in BOOLEAN
  PROVE  Sound(InterOk(i, ok))
<1> DEFINE s == IF NumFadeOut > 0 THEN "FadeOut" ELSE "Mute"
           j == [i EXCEPT !.concealState = s, !.cntFadeFrames = 0, !.cntValidFrames = 0]
<1>1. 0 \in (-1)..NumFactors /\ 0 \in Nat /\ 0 < NumFactors
  BY Constants
<1>2. s \in States /\ s # "FadeIn"
  BY DEF States
<1> HIDE DEF s
<1>3. j \in Info /\ j.concealState = s /\ j.cntFadeFrames = 0
  BY <1>1, <1>2 DEF Info
<1>4. InterOk(i, ok) = IF Estimable(i, ok) THEN i ELSE j
  BY DEF InterOk, s
<1> HIDE DEF j
<1>5. Sound(j)
  BY <1>1, <1>2, <1>3 DEF Sound, Bounded
<1>6. Sound(i)
  BY DEF Sound, Bounded
<1> QED BY <1>4, <1>5, <1>6

LEMMA InterFadeOutSound ==
  ASSUME NEW i \in Info, i.concealState = "FadeOut", i.cntFadeFrames < NumFactors
  PROVE  Sound(InterFadeOut(i))
<1> DEFINE c == i.cntFadeFrames + 1
           j == [i EXCEPT !.cntFadeFrames = c]
<1>1. c \in (-1)..NumFactors /\ c \in Int
  BY CountTyped, Constants
<1>2. InterFadeOut(i) = IF Released(i) THEN FadeInOrOk(j, EquiFadeIn(i.cntFadeFrames))
                        ELSE IF FadedOut(j) THEN Enter(j, "Mute") ELSE j
  BY DEF InterFadeOut
<1> HIDE DEF c
<1>3. j \in Info /\ j.concealState = "FadeOut" /\ j.cntFadeFrames = c
  BY <1>1, SetsCount
<1> HIDE DEF j
<1>4. Sound(FadeInOrOk(j, EquiFadeIn(i.cntFadeFrames)))
  <2>1. EquiFadeIn(i.cntFadeFrames) <= NumFadeIn /\ EquiFadeIn(i.cntFadeFrames) >= 0
    BY EquiFadesIn, Constants
  <2> QED BY <1>3, <2>1, EquiFadesIn, FadesIn
<1>5. Sound(Enter(j, "Mute"))
  BY <1>3, EnterSound
<1>6. ~ FadedOut(j) => Sound(j)
  <2> HAVE ~ FadedOut(j)
  <2>1. j.cntFadeFrames < NumFactors
    BY <1>1, <1>3, Constants DEF FadedOut
  <2> QED BY <1>3, <2>1 DEF Sound, Bounded
<1> QED BY <1>2, <1>4, <1>5, <1>6

LEMMA InterMuteSound ==
  ASSUME NEW i \in Info, i.concealState = "Mute"
  PROVE  Sound(InterMute(i))
<1>1. Sound(FadeInOrOk(i, NumFadeIn - 1))
  BY FadesIn, Constants
<1>2. Sound(i)
  BY DEF Sound, Bounded
<1> QED BY <1>1, <1>2 DEF InterMute

LEMMA InterFadeInSound ==
  ASSUME NEW i \in Info, NEW ok \in BOOLEAN,
         i.concealState = "FadeIn", i.cntFadeFrames \in 0..NumFadeIn
  PROVE  Sound(InterFadeIn(i, ok))
<1> DEFINE c == i.cntFadeFrames - 1
           j == [i EXCEPT !.cntFadeFrames = c]
           d == EquiFadeOut(i.cntFadeFrames)
           k == [i EXCEPT !.concealState = "FadeOut", !.cntFadeFrames = d]
<1>1. c \in Int /\ c \in (-1)..(NumFadeIn - 1) /\ c \in (-1)..NumFactors
  BY Constants
<1>2. d \in (-1)..NumFactors /\ d < NumFactors
  <2>1. i.cntFadeFrames \in FactorIndex
    BY Constants DEF FactorIndex
  <2>2. d \in FactorIndex
    BY <2>1, EquiFadeOutRange
  <2> HIDE DEF d
  <2> QED BY <2>2, Constants DEF FactorIndex
<1>3. InterFadeIn(i, ok) =
        IF ok \/ i.prevFrameOk[1]
        THEN IF c < 0 THEN Enter(j, "Ok") ELSE j
        ELSE IF NumFadeOut > 0 THEN k ELSE Enter(j, "Mute")
  <2>1. j.cntFadeFrames = c
    BY DEF Info
  <2> QED BY <2>1 DEF InterFadeIn
<1> HIDE DEF c, d
<1>4. j \in Info /\ j.concealState = "FadeIn" /\ j.cntFadeFrames = c
  BY <1>1, SetsCount
<1>5. Sound(k)
  <2>1. k \in Info /\ k.concealState = "FadeOut" /\ k.cntFadeFrames = d
    BY <1>2 DEF Info, States
  <2> QED BY <1>2, <2>1 DEF Sound, Bounded
<1> HIDE DEF j, k
<1>6. Sound(Enter(j, "Ok")) /\ Sound(Enter(j, "Mute"))
  BY <1>4, EnterSound
<1>7. ~ (c < 0) => Sound(j)
  <2> HAVE ~ (c < 0)
  <2>1. c \in 0..NumFadeIn
    BY <1>1, Constants
  <2> QED BY <1>4, <2>1 DEF Sound, Bounded
<1> QED BY <1>3, <1>5, <1>6, <1>7

LEMMA UpdateInterSound ==
  ASSUME NEW i, Sound(i), NEW ok \in BOOLEAN
  PROVE  Sound(UpdateInter(i, ok))
<1> DEFINE j == CountValid(i, Estimable(i, ok))
<1>1. i \in Info /\ Bounded(i)
  BY DEF Sound
<1>2. j \in Info /\ j.concealState = i.concealState /\ j.cntFadeFrames = i.cntFadeFrames
  <2>1. Estimable(i, ok) \in BOOLEAN
    BY <1>1 DEF Estimable, Info
  <2> QED BY <1>1, <2>1, CountsValid
<1>3. i.concealState \in States
  BY <1>1 DEF Info
<1>4. UpdateInter(i, ok) =
        CASE i.concealState = "Ok"      -> InterOk(j, ok)
          [] i.concealState = "Single"  -> Enter(j, "Ok")
          [] i.concealState = "FadeOut" -> InterFadeOut(j)
          [] i.concealState = "Mute"    -> InterMute(j)
          [] i.concealState = "FadeIn"  -> InterFadeIn(j, ok)
  BY DEF UpdateInter
<1> HIDE DEF j
<1>5. CASE i.concealState = "Ok"
  BY <1>2, <1>4, <1>5, InterOkSound
<1>6. CASE i.concealState = "Single"
  BY <1>2, <1>4, <1>6, EnterSound
<1>7. CASE i.concealState = "FadeOut"
  <2>1. j.cntFadeFrames < NumFactors
    BY <1>1, <1>2, <1>7 DEF Bounded
  <2> QED BY <1>2, <1>4, <1>7, <2>1, InterFadeOutSound
<1>8. CASE i.concealState = "Mute"
  BY <1>2, <1>4, <1>8, InterMuteSound
<1>9. CASE i.concealState = "FadeIn"
  <2>1. j.cntFadeFrames \in 0..NumFadeIn
    BY <1>1, <1>2, <1>9 DEF Bounded
  <2> QED BY <1>2, <1>4, <1>9, <2>1, InterFadeInSound
<1> QED BY <1>3, <1>5, <1>6, <1>7, <1>8, <1>9 DEF States

LEMMA UpdateStateSound ==
  ASSUME NEW i, Sound(i), NEW ok \in BOOLEAN, method \in Methods
  PROVE  Sound(UpdateState(i, ok))
<1>1. method \in {"Mute", "Noise", "Inter"}
  BY ConcealAssumption
<1> QED BY <1>1, UpdateNoiseSound, UpdateInterSound DEF UpdateState

-----------------------------------------------------------------------------
\* The level at the end of a frame comes from the table.
LEMMA FadesTyped ==
  ASSUME NEW i, Sound(i)
  PROVE  Sound(TDFading(i))
<1>1. i \in Info /\ Bounded(i)
  BY DEF Sound
<1>2. i.cntFadeFrames \in Int /\ i.cntFadeFrames \in (-1)..NumFactors
  BY <1>1, CountTyped
<1>3. \A index \in Int : index < NumFactors => LevelAt(index) \in 0..Full
  <2> TAKE index \in Int
  <2> HAVE index < NumFactors
  <2>1. CASE index < 0
    BY <2>1, ConcealAssumption DEF LevelAt
  <2>2. CASE ~ (index < 0)
    <3>1. index \in FactorIndex
      BY <2>2, Constants DEF FactorIndex
    <3> QED BY <2>2, <3>1, ConcealAssumption DEF LevelAt
  <2> QED BY <2>1, <2>2
<1>4. FadeStop(i) \in 0..Full
  <2>1. i.concealState \in States
    BY <1>1 DEF Info
  <2>2. CASE i.concealState = "Ok"
    BY <2>2, ConcealAssumption DEF FadeStop
  <2>3. CASE i.concealState = "FadeIn"
    <3>1. i.cntFadeFrames - 1 \in Int /\ i.cntFadeFrames - 1 < NumFactors
      BY <1>1, <1>2, <2>3, Constants DEF Bounded
    <3> QED BY <1>3, <2>3, <3>1 DEF FadeStop
  <2>4. CASE i.concealState \in {"Single", "FadeOut", "Mute"}
    <3>1. 0 \in 0..Full
      BY ConcealAssumption
    <3>2. /\ FadeOutIndex(i) \in Int
          /\ i.concealState # "Mute" => FadeOutIndex(i) < NumFactors
      BY <1>1, <1>2, <2>4, Constants DEF Bounded, FadeOutIndex
    <3>3. i.concealState # "Mute" => LevelAt(FadeOutIndex(i)) \in 0..Full
      BY <1>3, <3>2
    <3> QED BY <2>4, <3>1, <3>3 DEF FadeStop
  <2> QED BY <2>1, <2>2, <2>3, <2>4 DEF States
<1> DEFINE f == FadeStop(i)
<1> HIDE DEF f
<1>5. TDFading(i) = [i EXCEPT !.fade_old = f, !.concealState_old = i.concealState]
  BY DEF TDFading, f
<1>6. /\ TDFading(i) \in Info
      /\ TDFading(i).concealState = i.concealState
      /\ TDFading(i).cntFadeFrames = i.cntFadeFrames
  BY <1>1, <1>4, <1>5 DEF Info, f
<1> QED BY <1>1, <1>6 DEF Sound, Bounded

-----------------------------------------------------------------------------
\* What is applied to the frame leaves the counters alone and renders a
\* spectrum.
Output == [spectrum : Spectrum, sequence : WindowSequences]

LEMMA MutedSound ==
  ASSUME NEW i, Sound(i)
  PROVE  /\ Sound(Muted(i)) /\ Sound([Muted(i) EXCEPT !.spectrum = Silence])
         /\ MutedOut(i) \in Output
<1> DEFINE w == WinSeqAfter(i.windowSequence)
<1>1. w \in WindowSequences
  BY DEF WinSeqAfter, WindowSequences
<1>2. Silence \in Spectrum
  BY DEF Silence, Spectrum
<1>3. MutedOut(i) = [spectrum |-> Silence, sequence |-> w]
  BY DEF MutedOut
<1>4. i \in Info /\ Bounded(i)
  BY DEF Sound
<1>5. Muted(i) = [i EXCEPT !.windowSequence = w]
  BY <1>4 DEF Muted, Info
<1> HIDE DEF w
<1>6. Sound(Muted(i))
  BY <1>1, <1>4, <1>5 DEF Sound, Bounded, Info
<1> DEFINE m == Muted(i)
<1> HIDE DEF m
<1>7. m \in Info /\ Bounded(m)
  BY <1>6 DEF Sound, m
<1>8. Sound([m EXCEPT !.spectrum = Silence])
  BY <1>2, <1>7 DEF Sound, Bounded, Info
<1> QED BY <1>1, <1>2, <1>3, <1>6, <1>8 DEF Output, m

LEMMA ApplyNoiseSound ==
  ASSUME NEW i, Sound(i), NEW data \in Output
  PROVE  Sound(ApplyNoise(i, data).info) /\ ApplyNoise(i, data).out \in Output
<1>1. i \in Info /\ Bounded(i) /\ i.concealState \in States
  BY DEF Sound, Info
<1>2. CASE i.concealState \in {"Ok", "FadeIn"}
  BY <1>2 DEF ApplyNoise
<1>3. CASE i.concealState \in {"Single", "FadeOut"}
  <2>1. Sound(RenderFadeOut(i))
    BY <1>1, RendersFadeOut DEF Sound, Bounded
  <2>2. Kept(i) \in Output
    BY <1>1 DEF Kept, Output, Info
  <2> QED BY <1>3, <2>1, <2>2 DEF ApplyNoise
<1>4. CASE i.concealState = "Mute"
  BY <1>4, MutedSound DEF ApplyNoise
<1> QED BY <1>1, <1>2, <1>3, <1>4 DEF States

LEMMA InterpolatedTyped ==
  ASSUME NEW a \in Output, NEW b \in Output
  PROVE  Interpolated(a, b) \in Output
<1> DEFINE both == a.spectrum.from \cup b.spectrum.from
           mix(x, sequence) ==
             [spectrum |-> [from |-> both, short |-> x.spectrum.short], sequence |-> sequence]
<1>1. both \in SUBSET (0..Oldest)
  BY DEF Output, Spectrum
<1>2. a.spectrum.short \in BOOLEAN /\ b.spectrum.short \in BOOLEAN
  BY DEF Output, Spectrum
<1> HIDE DEF both
<1>3. \A x \in {a, b}, sequence \in WindowSequences : mix(x, sequence) \in Output
  BY <1>1, <1>2 DEF Output, Spectrum
<1>4. {"Short", "Stop", "Start", "Long"} \subseteq WindowSequences
  BY DEF WindowSequences
<1> HIDE DEF mix
<1>5. CASE a.sequence = "Short" /\ b.sequence = "Short"
  <2>1. Interpolated(a, b) = mix(a, "Short")
    BY <1>5 DEF Interpolated, mix, both
  <2> QED BY <2>1, <1>3, <1>4
<1>6. CASE a.sequence = "Short" /\ b.sequence # "Short"
  <2>1. Interpolated(a, b) = mix(b, "Stop")
    BY <1>6 DEF Interpolated, mix, both
  <2> QED BY <2>1, <1>3, <1>4
<1>7. CASE a.sequence # "Short" /\ b.sequence = "Short"
  <2>1. Interpolated(a, b) = mix(a, "Start")
    BY <1>7 DEF Interpolated, mix, both
  <2> QED BY <2>1, <1>3, <1>4
<1>8. CASE a.sequence # "Short" /\ b.sequence # "Short"
  <2>1. Interpolated(a, b) = mix(a, "Long")
    BY <1>8 DEF Interpolated, mix, both
  <2> QED BY <2>1, <1>3, <1>4
<1> QED BY <1>5, <1>6, <1>7, <1>8

LEMMA ApplyInterSound ==
  ASSUME NEW i, Sound(i), NEW before \in Output, NEW ok \in BOOLEAN, NEW release \in BOOLEAN
  PROVE  /\ Sound(ApplyInter(i, before, ok, release).info)
         /\ ApplyInter(i, before, ok, release).out \in Output
<1>1. i \in Info
  BY DEF Sound
<1>2. Kept(i) \in Output
  BY <1>1 DEF Kept, Output, Info
<1> DEFINE shown == IF ok /\ ~release THEN before ELSE Kept(i)
           both == ok /\ ~release /\ ~i.prevFrameOk[1] /\ i.prevFrameOk[0]
<1>3. shown \in Output
  BY <1>2
<1>4. Interpolated(shown, Kept(i)) \in Output
  BY <1>2, <1>3, InterpolatedTyped
<1>5. ApplyInter(i, before, ok, release) =
        IF i.concealState = "Mute" THEN [info |-> Muted(i), out |-> MutedOut(i)]
        ELSE [info |-> i, out |-> IF both THEN Interpolated(shown, Kept(i)) ELSE shown]
  BY DEF ApplyInter
<1> DEFINE heard == IF both THEN Interpolated(shown, Kept(i)) ELSE shown
<1>6. heard \in Output
  BY <1>3, <1>4
<1> HIDE DEF heard
<1>7. CASE i.concealState = "Mute"
  <2>1. ApplyInter(i, before, ok, release) = [info |-> Muted(i), out |-> MutedOut(i)]
    BY <1>5, <1>7
  <2>2. Sound(Muted(i)) /\ MutedOut(i) \in Output
    BY MutedSound
  <2> QED BY <2>1, <2>2
<1>8. CASE i.concealState # "Mute"
  <2>1. ApplyInter(i, before, ok, release) = [info |-> i, out |-> heard]
    BY <1>5, <1>8 DEF heard
  <2> QED BY <1>6, <2>1
<1> QED BY <1>7, <1>8

LEMMA ApplySound ==
  ASSUME NEW i, Sound(i), NEW before \in Output, NEW data \in Output,
         NEW ok \in BOOLEAN, NEW release \in BOOLEAN, method \in Methods
  PROVE  /\ Sound(ApplyMethod(i, before, data, ok, release).info)
         /\ ApplyMethod(i, before, data, ok, release).out \in Output
<1>1. method \in {"Mute", "Noise", "Inter"}
  BY ConcealAssumption
<1>2. Sound(ApplyMute(i, data, ok).info) /\ ApplyMute(i, data, ok).out \in Output
  <2>1. Silence \in Spectrum
    BY DEF Silence, Spectrum
  <2> QED BY <2>1 DEF ApplyMute, Output
<1> QED BY <1>1, <1>2, ApplyNoiseSound, ApplyInterSound DEF ApplyMethod

-----------------------------------------------------------------------------
\* The inductive invariant: the types, and the slope every count belongs to.
IInv == TypeOK /\ Bounded(info)

LEMMA StoresSound ==
  ASSUME NEW i, Sound(i), NEW frame \in Frame
  PROVE  Sound(Store(i, frame)) /\ Parsed(frame) \in Output
<1>1. i \in Info /\ Bounded(i)
  BY DEF Sound
<1>2. Parsed(frame) \in Output /\ frame.group \in 1..NumShort
  <2>1. 0 \in 0..Oldest
    BY ConcealAssumption
  <2> QED BY <2>1 DEF Parsed, Output, Spectrum, Frame
<1> DEFINE p == Parsed(frame).spectrum
           q == frame.sequence
           g == frame.group
<1>3. p \in Spectrum /\ q \in WindowSequences /\ g \in 1..NumShort
  BY <1>2 DEF Output, Frame
<1>4. Store(i, frame) = [i EXCEPT !.spectrum = p, !.windowSequence = q, !.lastWinGrpLen = g]
  BY DEF Store
<1> HIDE DEF p, q, g
<1>5. Sound(Store(i, frame))
  BY <1>1, <1>3, <1>4 DEF Sound, Bounded, Info
<1> QED BY <1>2, <1>5

LEMMA AgesSound ==
  ASSUME NEW i, Sound(i)
  PROVE  Sound([i EXCEPT !.spectrum = Older(@)])
<1>1. i \in Info /\ Bounded(i)
  BY DEF Sound
<1> DEFINE o == Older(i.spectrum)
<1>2. o \in Spectrum
  <2> DEFINE s == {IF a < Oldest THEN a + 1 ELSE a : a \in i.spectrum.from}
  <2>1. i.spectrum \in Spectrum
    BY <1>1 DEF Info
  <2>2. s \in SUBSET (0..Oldest)
    BY <2>1, ConcealAssumption DEF Spectrum
  <2>3. o = [i.spectrum EXCEPT !.from = s]
    BY <2>1 DEF Older, Spectrum
  <2> HIDE DEF s
  <2> QED BY <2>1, <2>2, <2>3 DEF Spectrum
<1>3. [i EXCEPT !.spectrum = Older(@)] = [i EXCEPT !.spectrum = o]
  BY <1>1 DEF Info
<1> HIDE DEF o
<1> QED BY <1>1, <1>2, <1>3 DEF Sound, Bounded, Info

LEMMA HistoryTyped ==
  ASSUME NEW ok \in BOOLEAN, recent \in Seq(BOOLEAN)
  PROVE  SubSeq(<<ok>> \o recent, 1, IF Len(recent) < 3 THEN Len(recent) + 1 ELSE 3)
           \in Seq(BOOLEAN)
<1> DEFINE t == <<ok>> \o recent
           n == IF Len(recent) < 3 THEN Len(recent) + 1 ELSE 3
<1>1. t \in Seq(BOOLEAN) /\ Len(t) = Len(recent) + 1 /\ Len(recent) \in Nat
  OBVIOUS
<1>2. n \in Nat /\ n <= Len(t)
  BY <1>1
<1> HIDE DEF t, n
<1>3. SubSeq(t, 1, n) \in Seq(BOOLEAN)
  BY <1>1, <1>2
<1> QED BY <1>3 DEF t, n

LEMMA HeardTyped ==
  ASSUME IInv, NEW ok \in BOOLEAN, Heard(ok)
  PROVE  recent' \in Seq(BOOLEAN) /\ run' \in 0..LongRun
<1>1. recent' \in Seq(BOOLEAN)
  BY HistoryTyped DEF Heard, IInv, TypeOK
<1>2. run' \in 0..LongRun
  BY ConcealAssumption DEF Heard, IInv, TypeOK
<1> QED BY <1>1, <1>2

LEMMA ForgottenTyped ==
  ASSUME Forgotten
  PROVE  recent' \in Seq(BOOLEAN) /\ run' \in 0..LongRun
<1>1. << >> \in Seq(BOOLEAN) /\ 0 \in 0..LongRun
  BY ConcealAssumption
<1> QED BY <1>1 DEF Forgotten

LEMMA LongIsFrame == LongFrame \in Frame
  BY ConcealAssumption DEF LongFrame, Frame, WindowSequences

LEMMA RenderKeepsInv ==
  ASSUME IInv, NEW ok \in BOOLEAN, NEW frame \in Frame, Render(ok, frame),
         recent' \in Seq(BOOLEAN), run' \in 0..LongRun, switched' = switched
  PROVE  IInv'
<1> DEFINE release == MuteReleaseActive(ok)
           aged == [info EXCEPT !.spectrum = Older(@)]
           stored == IF ok /\ ~release THEN Store(aged, frame) ELSE aged
           updated == UpdateState(stored, ok)
           applied == ApplyMethod(updated, Kept(aged), Parsed(frame), ok, release)
           history == [k \in 0..1 |-> IF k = 0 THEN applied.info.prevFrameOk[1] ELSE ok]
           next == [applied.info EXCEPT !.prevFrameOk = history]
<1>1. TypeOK /\ Sound(info) /\ method \in Methods
  BY DEF IInv, TypeOK, Sound
<1>2. release \in BOOLEAN
  BY DEF MuteReleaseActive
<1>3. Sound(aged)
  BY <1>1, AgesSound
<1>4. Kept(aged) \in Output
  <2>1. aged \in Info
    BY <1>3 DEF Sound
  <2> HIDE DEF aged
  <2> QED BY <2>1 DEF Kept, Output, Info
<1>5. /\ info' = TDFading(next) /\ out' = applied.out /\ noise' = NoiseAdded(next)
      /\ method' = method
  BY DEF Render
<1> HIDE DEF release, aged
<1>8. Sound(stored) /\ Parsed(frame) \in Output
  BY <1>3, StoresSound
<1> HIDE DEF stored
<1>9. Sound(updated)
  BY <1>1, <1>8, UpdateStateSound
<1> HIDE DEF updated
<1>10. Sound(applied.info) /\ applied.out \in Output
  BY <1>1, <1>2, <1>4, <1>8, <1>9, ApplySound
<1> HIDE DEF applied
<1>11. Sound(next)
  <2>1. applied.info \in Info /\ Bounded(applied.info)
    BY <1>10 DEF Sound
  <2>2. history \in [0..1 -> BOOLEAN]
    BY <2>1 DEF Info
  <2> HIDE DEF history
  <2> QED BY <2>1, <2>2 DEF Sound, Bounded, Info
<1>12. noise' \in BOOLEAN
  BY <1>5 DEF NoiseAdded
<1> HIDE DEF next
<1>13. Sound(info')
  BY <1>5, <1>11, FadesTyped
<1> QED BY <1>1, <1>5, <1>10, <1>12, <1>13 DEF IInv, TypeOK, Sound, Output

LEMMA InitInv == Init => IInv
<1> SUFFICES ASSUME Init PROVE IInv
  OBVIOUS
<1>1. /\ 0 \in (-1)..NumFactors /\ 0 \in Nat /\ 1 \in 1..NumShort /\ Full \in 0..Full
      /\ 0 \in 0..LongRun
  BY ConcealAssumption
<1>2. Silence \in Spectrum /\ NoOffsets \in Offsets
  BY DEF Silence, Spectrum, NoOffsets, Offsets
<1>3. \A old \in States : InitChannelData(old) \in Info /\ Bounded(InitChannelData(old))
  BY <1>1, <1>2 DEF InitChannelData, Info, Bounded, States, WindowSequences
<1>4. info \in Info /\ Bounded(info)
  BY <1>3 DEF Init, States
<1>5. << >> \in Seq(BOOLEAN)
  OBVIOUS
<1> QED BY <1>1, <1>2, <1>4, <1>5 DEF Init, IInv, TypeOK, WindowSequences

LEMMA ClearKeepsInv == IInv /\ ClearHistory => IInv'
<1> SUFFICES ASSUME IInv, ClearHistory PROVE IInv'
  OBVIOUS
<1>1. /\ 0 \in (-1)..NumFactors /\ 0 \in Nat /\ 1 \in 1..NumShort /\ Full \in 0..Full
      /\ 0 \in 0..LongRun
  BY ConcealAssumption
<1>2. Silence \in Spectrum /\ NoOffsets \in Offsets
  BY DEF Silence, Spectrum, NoOffsets, Offsets
<1> DEFINE old == info.concealState_old
<1>3. old \in States
  BY DEF IInv, TypeOK, Info
<1>4. info' = InitChannelData(old)
  BY DEF ClearHistory
<1> HIDE DEF old
<1>5. info' \in Info /\ Bounded(info')
  BY <1>1, <1>2, <1>3, <1>4 DEF InitChannelData, Info, Bounded, States, WindowSequences
<1>6. << >> \in Seq(BOOLEAN)
  OBVIOUS
<1> QED BY <1>1, <1>2, <1>5, <1>6 DEF ClearHistory, Forgotten, IInv, TypeOK, WindowSequences

LEMMA NextInv == IInv /\ [Next]_vars => IInv'
<1> SUFFICES ASSUME IInv, [Next]_vars PROVE IInv'
  OBVIOUS
<1>1. CASE \E frame \in Frame : GoodFrame(frame)
  BY <1>1, RenderKeepsInv, HeardTyped DEF GoodFrame
<1>6. CASE \E frame \in Frame : Flush(frame)
  BY <1>6, RenderKeepsInv, ForgottenTyped DEF Flush
<1>2. CASE LostFrame
  BY <1>2, RenderKeepsInv, HeardTyped, LongIsFrame DEF LostFrame
<1>3. CASE \E m \in Methods : SetMethod(m)
  <2>1. run' \in 0..LongRun
    BY <1>3, ConcealAssumption DEF SetMethod, IInv, TypeOK
  <2> QED BY <1>3, <2>1 DEF SetMethod, IInv, TypeOK
<1>4. CASE ClearHistory
  BY <1>4, ClearKeepsInv
<1>5. CASE UNCHANGED vars
  BY <1>5 DEF vars, IInv, TypeOK
<1> QED BY <1>1, <1>2, <1>3, <1>4, <1>5, <1>6 DEF Next

\* IInv is an invariant.
THEOREM Invariance == Spec => []IInv
BY InitInv, NextInv, PTL DEF Spec

\* The variables keep their types: cntFadeFrames never leaves the range of the
\* fade tables by more than the one step that ends a slope, and every level
\* CConcealment_TDFading reads from fadeOutFactor or fadeInFactor is read inside the table,
\* whatever frames are lost and however the method is switched.
THEOREM TypeCorrect == Spec => []TypeOK
<1>1. IInv => TypeOK
  BY DEF IInv
<1> QED BY Invariance, <1>1, PTL

-----------------------------------------------------------------------------
\* Noise substitution goes on from an offset only if the frame the offset was
\* counted in is still the one that is stored.
Grouped(i) ==
  i.concealState \in {"Single", "FadeOut"} => InRange(i, 0) /\ InRange(i, 1)
Fits(spectrum, sequence) == spectrum.from # {} => (spectrum.short <=> sequence = "Short")

\* A good frame was stored that ends the fade-out.
Ends(i, ok) ==
  ok /\ (i.concealState = "Single" \/ i.cntValidFrames + 1 > NumMuteRelease)

\* k is i with another state, other counts and other offsets that fit.
SameFrame(i, k) ==
  /\ k.windowSequence = i.windowSequence /\ k.lastWinGrpLen = i.lastWinGrpLen
  /\ k.spectrum = i.spectrum
Leaves(i, k) == SameFrame(i, k) /\ k.inRange /\ Grouped(k)

LEMMA RangeOf ==
  ASSUME NEW i \in Info, NEW k \in Info, SameFrame(i, k), NEW m \in 0..1
  PROVE  InRange(k, m) <=> k.offset[m].winGrp < GroupLen(i)
BY DEF SameFrame, InRange, GroupLen

LEMMA NoOffsetsFit ==
  ASSUME NEW i \in Info, i.inRange
  PROVE  /\ SameFrame(i, ResetOffsets(i)) /\ ResetOffsets(i).inRange
         /\ InRange(ResetOffsets(i), 0) /\ InRange(ResetOffsets(i), 1)
<1> DEFINE k == ResetOffsets(i)
<1>1. k \in Info
  BY ResetsWindows
<1>2. SameFrame(i, k) /\ k.inRange
  BY DEF ResetOffsets, SameFrame, Info
<1>3. \A m \in 0..1 : k.offset[m].winGrp = 0
  BY DEF ResetOffsets, NoOffsets, Info
<1> HIDE DEF k
<1>4. \A m \in 0..1 : InRange(k, m)
  <2> TAKE m \in 0..1
  <2>1. 0 < GroupLen(i)
    BY WindowSteps
  <2> QED BY <1>1, <1>2, <1>3, <2>1, RangeOf
<1> QED BY <1>2, <1>4 DEF k

LEMMA CountsInGroup ==
  ASSUME NEW i \in Info, i.cntFadeFrames + NumShort <= NumFactors, i.inRange,
         InRange(i, 0), InRange(i, 1)
  PROVE  Leaves(i, CountFadeOut(i))
<1> DEFINE k == CountFadeOut(i)
           o == NextOffset(i, 0)
<1>1. k \in Info
  BY CountsFadeOut
<1>2. SameFrame(i, k) /\ k.inRange
  BY DEF CountFadeOut, SameFrame, Info
<1>3. k.offset[0] = o /\ k.offset[1] = i.offset[1]
  BY DEF CountFadeOut, Info
<1>4. o.winGrp < GroupLen(i)
  BY WindowSteps
<1>5. i.offset[1].winGrp < GroupLen(i)
  BY DEF InRange
<1> HIDE DEF k, o
<1>6. InRange(k, 0) /\ InRange(k, 1)
  BY <1>1, <1>2, <1>3, <1>4, <1>5, RangeOf
<1> QED BY <1>2, <1>6 DEF Leaves, Grouped, k

LEMMA RendersInGroup ==
  ASSUME NEW i \in Info, i.inRange, InRange(i, 0), InRange(i, 1)
  PROVE  Leaves(i, RenderFadeOut(i))
<1> DEFINE k == RenderFadeOut(i)
           o == NextOffset(i, 1)
<1>1. k \in Info
  BY RendersFadeOut
<1>2. SameFrame(i, k) /\ k.inRange
  BY DEF RenderFadeOut, SameFrame, Info
<1>3. k.offset[1] = o /\ k.offset[0] = i.offset[0]
  BY DEF RenderFadeOut, Info
<1>4. o.winGrp < GroupLen(i)
  BY WindowSteps
<1>5. i.offset[0].winGrp < GroupLen(i)
  BY DEF InRange
<1> HIDE DEF k, o
<1>6. InRange(k, 0) /\ InRange(k, 1)
  BY <1>1, <1>2, <1>3, <1>4, <1>5, RangeOf
<1> QED BY <1>2, <1>6 DEF Leaves, Grouped, k

LEMMA EntersSame ==
  ASSUME NEW i \in Info, i.inRange, NEW s \in States
  PROVE  /\ Enter(i, s) \in Info /\ SameFrame(i, Enter(i, s)) /\ Enter(i, s).inRange
         /\ Enter(i, s).concealState = s /\ Enter(i, s).offset = i.offset
         /\ Enter(i, s).cntFadeFrames = i.cntFadeFrames
BY DEF Enter, SameFrame, Info

LEMMA StopsLeaves ==
  ASSUME NEW i \in Info, i.inRange, NEW s \in {"Ok", "Mute"}
  PROVE  Leaves(i, Enter(i, s))
BY EntersSame DEF Leaves, Grouped, States

LEMMA FadesInLeaves ==
  ASSUME NEW i \in Info, i.inRange, NEW n \in Int
  PROVE  Leaves(i, FadeInOrOk(i, n))
<1>1. CASE NumFadeIn > 0
  <2>1. FadeInOrOk(i, n) = [i EXCEPT !.concealState = "FadeIn", !.cntFadeFrames = n]
    BY <1>1 DEF FadeInOrOk
  <2> QED BY <2>1 DEF Leaves, Grouped, SameFrame, Info
<1>2. CASE ~ (NumFadeIn > 0)
  BY <1>2, StopsLeaves DEF FadeInOrOk
<1> QED BY <1>1, <1>2

LEMMA FadesOutLeaves ==
  ASSUME NEW i \in Info, i.cntFadeFrames + NumShort < NumFactors, i.inRange,
         InRange(i, 0), InRange(i, 1), NEW s \in {"Single", "FadeOut"}
  PROVE  Leaves(i, CountFadeOut(Enter(i, s)))
<1> DEFINE j == Enter(i, s)
<1>1. /\ j \in Info /\ SameFrame(i, j) /\ j.inRange /\ j.offset = i.offset
      /\ j.cntFadeFrames = i.cntFadeFrames
  BY EntersSame DEF States
<1> HIDE DEF j
<1>2. InRange(j, 0) /\ InRange(j, 1)
  BY <1>1 DEF InRange, SameFrame, GroupLen
<1>3. j.cntFadeFrames + NumShort <= NumFactors
  BY <1>1, CountTyped, Constants
<1>4. Leaves(j, CountFadeOut(j))
  BY <1>1, <1>2, <1>3, CountsInGroup
<1> QED BY <1>1, <1>4 DEF Leaves, SameFrame, j

LEMMA SameFrameTransitive ==
  ASSUME NEW i, NEW j, NEW k, SameFrame(i, j), Leaves(j, k)
  PROVE  Leaves(i, k)
BY DEF SameFrame, Leaves

LEMMA HoldsLeaves ==
  ASSUME NEW i \in Info, i.inRange, NEW ok \in BOOLEAN, InRange(i, 0) /\ InRange(i, 1)
  PROVE  /\ HoldOffsets(i, ok) \in Info /\ SameFrame(i, HoldOffsets(i, ok))
         /\ HoldOffsets(i, ok).inRange
         /\ InRange(HoldOffsets(i, ok), 0) /\ InRange(HoldOffsets(i, ok), 1)
<1>1. SameFrame(i, i)
  BY DEF SameFrame
<1> QED BY <1>1, ResetsWindows, NoOffsetsFit DEF HoldOffsets

LEMMA UpdateNoiseGroups ==
  ASSUME NEW i, Sound(i), i.inRange, NEW ok \in BOOLEAN, Grouped(i) \/ Ends(i, ok)
  PROVE  Leaves(i, UpdateNoise(i, ok))
<1> DEFINE j == CountValid(i, ok)
<1>1. i \in Info /\ Bounded(i) /\ i.concealState \in States
  BY DEF Sound, Info
<1>2. /\ j \in Info /\ j.concealState = i.concealState
      /\ j.cntFadeFrames = i.cntFadeFrames
  BY <1>1, CountsValid
<1>3. /\ SameFrame(i, j) /\ j.inRange /\ j.offset = i.offset
      /\ i.concealState # "Ok" /\ ok => j.cntValidFrames = i.cntValidFrames + 1
  BY <1>1 DEF CountValid, SameFrame, Info
<1>4. UpdateNoise(i, ok) =
        CASE i.concealState = "Ok"      -> NoiseOk(j, ok)
          [] i.concealState = "Single"  -> NoiseSingle(j, ok)
          [] i.concealState = "FadeOut" -> NoiseFadeOut(j, ok)
          [] i.concealState = "Mute"    -> NoiseMute(j, ok)
          [] i.concealState = "FadeIn"  -> NoiseFadeIn(j, ok)
  BY DEF UpdateNoise
<1> HIDE DEF j
<1>5. Grouped(i) /\ i.concealState \in {"Single", "FadeOut"} => InRange(j, 0) /\ InRange(j, 1)
  BY <1>3 DEF Grouped, InRange, SameFrame, GroupLen
<1>6. j.cntFadeFrames \in Int
  BY <1>2, CountTyped
<1>7. CASE i.concealState = "Ok"
  <2> DEFINE z == [j EXCEPT !.cntFadeFrames = 0, !.cntValidFrames = 0]
             k == ResetOffsets(z)
  <2>1. z \in Info /\ z.cntFadeFrames = 0 /\ SameFrame(j, z) /\ z.inRange
    <3>1. 0 \in (-1)..NumFactors /\ 0 \in Nat
      BY Constants
    <3> QED BY <1>2, <1>3, <3>1 DEF Info, SameFrame
  <2> HIDE DEF z
  <2>2. /\ k \in Info /\ k.cntFadeFrames = 0 /\ SameFrame(z, k) /\ k.inRange
        /\ InRange(k, 0) /\ InRange(k, 1)
    BY <2>1, ResetsWindows, NoOffsetsFit
  <2>3. NoiseOk(j, ok) = IF ok THEN j
                         ELSE IF NumFadeOut > 0 THEN CountFadeOut(Enter(k, "Single"))
                                                ELSE Enter(k, "Mute")
    BY DEF NoiseOk, z
  <2> HIDE DEF k
  <2>4. SameFrame(i, k)
    BY <1>3, <2>1, <2>2 DEF SameFrame
  <2>5. NumFadeOut > 0 => Leaves(k, CountFadeOut(Enter(k, "Single")))
    <3> HAVE NumFadeOut > 0
    <3>1. k.cntFadeFrames + NumShort < NumFactors
      BY <2>2, Constants
    <3> QED BY <2>2, <3>1, FadesOutLeaves
  <2>6. Leaves(k, Enter(k, "Mute"))
    BY <2>2, StopsLeaves
  <2>7. Leaves(i, j)
    BY <1>2, <1>3, <1>7 DEF Leaves, Grouped
  <2> QED BY <1>4, <1>7, <2>3, <2>4, <2>5, <2>6, <2>7, SameFrameTransitive
<1>8. CASE i.concealState = "Single"
  <2>1. Leaves(j, Enter(j, "Ok")) /\ Leaves(j, Enter(j, "Mute"))
    BY <1>2, <1>3, StopsLeaves
  <2>2. ~ok /\ ~FadedOut(j) => Leaves(j, CountFadeOut(Enter(j, "FadeOut")))
    <3> HAVE ~ok /\ ~FadedOut(j)
    <3>1. j.cntFadeFrames + NumShort < NumFactors
      BY <1>6, Constants DEF FadedOut
    <3>2. InRange(j, 0) /\ InRange(j, 1)
      BY <1>5, <1>8 DEF Ends
    <3> QED BY <1>2, <1>3, <3>1, <3>2, FadesOutLeaves
  <2>3. Leaves(j, NoiseSingle(j, ok))
    BY <2>1, <2>2 DEF NoiseSingle
  <2> QED BY <1>3, <1>4, <1>8, <2>3, SameFrameTransitive
<1>9. CASE i.concealState = "FadeOut"
  <2>1. Released(j) => Leaves(j, FadeInOrOk(j, EquiFadeIn(j.cntFadeFrames)))
    <3>1. EquiFadeIn(j.cntFadeFrames) \in Int
      BY <1>1, <1>2, <1>9, EquiFadesIn DEF Bounded
    <3> QED BY <1>2, <1>3, <3>1, FadesInLeaves
  <2>2. ~Released(j) => Grouped(i)
    BY <1>3, <1>9 DEF Ends, Released
  <2> DEFINE h == HoldOffsets(j, ok)
  <2>3. ~Released(j) =>
          /\ h \in Info /\ SameFrame(j, h) /\ h.inRange /\ InRange(h, 0) /\ InRange(h, 1)
          /\ h.concealState = "FadeOut" /\ h.cntFadeFrames = j.cntFadeFrames
    BY <1>2, <1>3, <1>5, <1>9, <2>2, HoldsLeaves, Holds
  <2>4. NoiseFadeOut(j, ok) = IF Released(j) THEN FadeInOrOk(j, EquiFadeIn(j.cntFadeFrames))
                              ELSE IF FadedOut(j) THEN Enter(h, "Mute") ELSE CountFadeOut(h)
    BY DEF NoiseFadeOut
  <2> HIDE DEF h
  <2>5. ~Released(j) => Leaves(h, Enter(h, "Mute"))
    BY <2>3, StopsLeaves
  <2>6. ~Released(j) /\ ~FadedOut(j) => Leaves(h, CountFadeOut(h))
    <3> HAVE ~Released(j) /\ ~FadedOut(j)
    <3>1. h.cntFadeFrames + NumShort <= NumFactors
      BY <1>6, <2>3, Constants DEF FadedOut
    <3> QED BY <2>3, <3>1, CountsInGroup
  <2>7. SameFrame(i, h) \/ Released(j)
    BY <1>3, <2>3 DEF SameFrame
  <2> QED BY <1>3, <1>4, <1>9, <2>1, <2>4, <2>5, <2>6, <2>7, SameFrameTransitive
<1>10. CASE i.concealState = "Mute"
  <2>1. Leaves(j, FadeInOrOk(j, NumFadeIn - 1))
    BY <1>2, <1>3, FadesInLeaves, Constants
  <2>2. Leaves(j, HoldOffsets(j, ok))
    <3>1. Leaves(j, j)
      BY <1>2, <1>3, <1>10 DEF Leaves, SameFrame, Grouped
    <3>2. Leaves(j, ResetOffsets(j))
      BY <1>2, <1>3, NoOffsetsFit DEF Leaves, Grouped
    <3> QED BY <3>1, <3>2 DEF HoldOffsets
  <2>3. Leaves(j, NoiseMute(j, ok))
    BY <2>1, <2>2 DEF NoiseMute
  <2> QED BY <1>3, <1>4, <1>10, <2>3, SameFrameTransitive
<1>11. CASE i.concealState = "FadeIn"
  <2> DEFINE c == j.cntFadeFrames - 1
             v == [j EXCEPT !.cntFadeFrames = c]
             d == EquiFadeOut(j.cntFadeFrames) - 1
             w == [j EXCEPT !.cntFadeFrames = d]
             k == ResetOffsets(w)
  <2>1. j.cntFadeFrames \in 0..NumFadeIn
    BY <1>1, <1>2, <1>11 DEF Bounded
  <2>2. c \in (-1)..NumFactors
    BY <2>1, Constants
  <2>3. d \in Int /\ d <= NumFadeIn /\ d \in (-1)..NumFactors
    <3>1. j.cntFadeFrames \in FactorIndex
      BY <2>1, Constants DEF FactorIndex
    <3>2. EquiFadeOut(j.cntFadeFrames) \in 0..(j.cntFadeFrames + 1)
      BY <3>1, EquiFadeOutRange
    <3> QED BY <1>6, <2>1, <3>2, Constants
  <2>4. NoiseFadeIn(j, ok) =
          IF ok THEN IF c < 0 THEN Enter(v, "Ok") ELSE v
          ELSE IF NumFadeOut > 0 THEN CountFadeOut(Enter(k, "FadeOut")) ELSE Enter(v, "Mute")
    <3>1. v.cntFadeFrames = c
      BY <1>2 DEF Info
    <3> QED BY <3>1 DEF NoiseFadeIn
  <2> HIDE DEF c, d
  <2>5. v \in Info /\ v.concealState = "FadeIn" /\ SameFrame(j, v) /\ v.inRange
    BY <1>2, <1>3, <1>11, <2>2 DEF SameFrame, Info
  <2>6. w \in Info /\ w.cntFadeFrames = d /\ SameFrame(j, w) /\ w.inRange
    BY <1>2, <1>3, <2>3 DEF SameFrame, Info
  <2> HIDE DEF v, w
  <2>7. /\ k \in Info /\ k.cntFadeFrames = d /\ SameFrame(w, k) /\ k.inRange
        /\ InRange(k, 0) /\ InRange(k, 1)
    BY <2>6, ResetsWindows, NoOffsetsFit
  <2> HIDE DEF k
  <2>8. Leaves(v, Enter(v, "Ok")) /\ Leaves(v, Enter(v, "Mute")) /\ Leaves(v, v)
    BY <2>5, StopsLeaves DEF Leaves, Grouped, SameFrame
  <2>9. Leaves(k, CountFadeOut(Enter(k, "FadeOut")))
    <3>1. k.cntFadeFrames + NumShort < NumFactors
      BY <2>3, <2>7, Constants
    <3> QED BY <2>7, <3>1, FadesOutLeaves
  <2>10. SameFrame(i, v) /\ SameFrame(i, k)
    BY <1>3, <2>5, <2>6, <2>7 DEF SameFrame
  <2> QED BY <1>4, <1>11, <2>4, <2>8, <2>9, <2>10, SameFrameTransitive
<1> QED BY <1>1, <1>7, <1>8, <1>9, <1>10, <1>11 DEF States

LEMMA ApplyNoiseGroups ==
  ASSUME NEW i, Sound(i), i.inRange, Grouped(i), Fits(i.spectrum, i.windowSequence),
         NEW data, Fits(data.spectrum, data.sequence)
  PROVE  LET a == ApplyNoise(i, data)
         IN  /\ a.info.inRange /\ Grouped(a.info)
             /\ Fits(a.info.spectrum, a.info.windowSequence)
             /\ Fits(a.out.spectrum, a.out.sequence)
<1> DEFINE a == ApplyNoise(i, data)
<1>1. i \in Info /\ i.concealState \in States
  BY DEF Sound, Info
<1>2. CASE i.concealState \in {"Ok", "FadeIn"}
  <2>1. a = [info |-> i, out |-> data]
    BY <1>2 DEF ApplyNoise
  <2> QED BY <2>1
<1>3. CASE i.concealState \in {"Single", "FadeOut"}
  <2>1. a = [info |-> RenderFadeOut(i), out |-> Kept(i)]
    BY <1>3 DEF ApplyNoise
  <2> DEFINE k == RenderFadeOut(i)
  <2>2. Leaves(i, k)
    BY <1>1, <1>3, RendersInGroup DEF Grouped
  <2>3. a.info = k /\ a.out.spectrum = i.spectrum /\ a.out.sequence = i.windowSequence
    BY <2>1 DEF Kept
  <2> HIDE DEF a, k
  <2>4. /\ a.info.inRange /\ Grouped(a.info)
        /\ Fits(a.info.spectrum, a.info.windowSequence) /\ Fits(a.out.spectrum, a.out.sequence)
    BY <2>2, <2>3 DEF Leaves, SameFrame
  <2> QED BY <2>4 DEF a
<1>4. CASE i.concealState = "Mute"
  <2> DEFINE k == [Muted(i) EXCEPT !.spectrum = Silence]
  <2>1. a = [info |-> k, out |-> MutedOut(i)]
    BY <1>4 DEF ApplyNoise
  <2>2. k.spectrum = Silence /\ k.concealState = "Mute" /\ k.inRange = i.inRange
    BY <1>1, <1>4 DEF Muted, Info
  <2>3. MutedOut(i).spectrum = Silence
    BY DEF MutedOut
  <2> HIDE DEF k
  <2>4. Grouped(k) /\ Fits(k.spectrum, k.windowSequence)
    BY <2>2 DEF Grouped, Fits, Silence
  <2>5. Fits(MutedOut(i).spectrum, MutedOut(i).sequence)
    BY <2>3 DEF Fits, Silence
  <2>6. a.info = k /\ a.out = MutedOut(i)
    BY <2>1
  <2> HIDE DEF a
  <2>7. /\ a.info.inRange /\ Grouped(a.info)
        /\ Fits(a.info.spectrum, a.info.windowSequence) /\ Fits(a.out.spectrum, a.out.sequence)
    BY <2>2, <2>4, <2>5, <2>6
  <2> QED BY <2>7 DEF a
<1> QED BY <1>1, <1>2, <1>3, <1>4 DEF States

\* The invariant of noise substitution.
NoiseInv ==
  /\ IInv /\ method = "Noise" /\ info.inRange /\ Grouped(info)
  /\ Fits(info.spectrum, info.windowSequence) /\ Fits(out.spectrum, out.sequence)

LEMMA RenderGroups ==
  ASSUME NoiseInv, NEW ok \in BOOLEAN, NEW frame \in Frame, Render(ok, frame), IInv'
  PROVE  NoiseInv'
<1> DEFINE release == MuteReleaseActive(ok)
           aged == [info EXCEPT !.spectrum = Older(@)]
           stored == IF ok /\ ~release THEN Store(aged, frame) ELSE aged
           updated == UpdateState(stored, ok)
           applied == ApplyMethod(updated, Kept(aged), Parsed(frame), ok, release)
           history == [k \in 0..1 |-> IF k = 0 THEN applied.info.prevFrameOk[1] ELSE ok]
           next == [applied.info EXCEPT !.prevFrameOk = history]
<1>1. /\ IInv /\ Sound(info) /\ info \in Info /\ method = "Noise" /\ method \in Methods
      /\ info.inRange /\ Grouped(info) /\ Fits(info.spectrum, info.windowSequence)
  BY DEF NoiseInv, IInv, TypeOK, Sound
<1>2. info' = TDFading(next) /\ out' = applied.out /\ method' = method
  BY DEF Render
<1>3. Sound(aged)
  BY <1>1, AgesSound
<1>4. /\ aged.concealState = info.concealState /\ aged.cntValidFrames = info.cntValidFrames
      /\ aged.offset = info.offset /\ aged.windowSequence = info.windowSequence
      /\ aged.lastWinGrpLen = info.lastWinGrpLen /\ aged.inRange = info.inRange
      /\ aged.spectrum = Older(info.spectrum)
  BY <1>1 DEF Info
<1>5. Fits(aged.spectrum, aged.windowSequence)
  <2>1. info.spectrum \in Spectrum
    BY <1>1 DEF Info
  <2>2. /\ Older(info.spectrum).short = info.spectrum.short
        /\ Older(info.spectrum).from # {} => info.spectrum.from # {}
    BY <2>1 DEF Older, Spectrum
  <2> QED BY <1>1, <1>4, <2>2 DEF Fits
<1>6. Grouped(aged) /\ aged.inRange
  BY <1>1, <1>4 DEF Grouped, InRange, GroupLen
<1>7. Fits(Parsed(frame).spectrum, Parsed(frame).sequence)
  BY DEF Fits, Parsed
<1>8. release <=> /\ ok /\ info.concealState \in {"Mute", "FadeOut"}
                  /\ info.cntValidFrames + 1 <= NumMuteRelease
  BY DEF MuteReleaseActive
<1>9. aged \in Info
  BY <1>3 DEF Sound
<1>10. info.cntValidFrames \in Nat /\ NumMuteRelease \in Nat
  BY <1>1, Constants DEF Info
<1> HIDE DEF release, aged
<1>11. Sound(stored)
  BY <1>3, StoresSound
<1>12. stored.inRange /\ Fits(stored.spectrum, stored.windowSequence)
  <2>1. CASE ok /\ ~release
    <3>1. /\ stored.inRange = aged.inRange /\ stored.spectrum = Parsed(frame).spectrum
          /\ stored.windowSequence = frame.sequence
      BY <1>9, <2>1 DEF Store, Info
    <3> QED BY <1>6, <1>7, <3>1 DEF Fits, Parsed
  <2>2. CASE ~ (ok /\ ~release)
    BY <1>5, <1>6, <2>2
  <2> QED BY <2>1, <2>2
<1>13. Grouped(stored) \/ Ends(stored, ok)
  <2>1. CASE ok /\ ~release
    <3>1. /\ stored.concealState = info.concealState
          /\ stored.cntValidFrames = info.cntValidFrames
      BY <1>4, <1>9, <2>1 DEF Store, Info
    <3>2. info.concealState = "FadeOut" => info.cntValidFrames + 1 > NumMuteRelease
      BY <1>8, <1>10, <2>1
    <3> HIDE DEF stored
    <3> QED BY <2>1, <3>1, <3>2 DEF Grouped, Ends
  <2>2. CASE ~ (ok /\ ~release)
    BY <1>6, <2>2
  <2> QED BY <2>1, <2>2
<1> HIDE DEF stored
<1>14. updated = UpdateNoise(stored, ok)
  BY <1>1 DEF UpdateState
<1>15. Leaves(stored, UpdateNoise(stored, ok))
  BY <1>11, <1>12, <1>13, UpdateNoiseGroups
<1>16. Sound(updated)
  BY <1>11, <1>14, UpdateNoiseSound
<1> HIDE DEF updated
<1>17. updated.inRange /\ Grouped(updated) /\ Fits(updated.spectrum, updated.windowSequence)
  BY <1>12, <1>14, <1>15 DEF Leaves, SameFrame
<1>18. applied = ApplyNoise(updated, Parsed(frame))
  BY <1>1 DEF ApplyMethod
<1>19. /\ applied.info.inRange /\ Grouped(applied.info)
       /\ Fits(applied.info.spectrum, applied.info.windowSequence)
       /\ Fits(applied.out.spectrum, applied.out.sequence)
  BY <1>7, <1>16, <1>17, <1>18, ApplyNoiseGroups
<1>20. applied.info \in Info
  BY <1>7, <1>16, <1>18, ApplyNoiseSound, StoresSound, <1>3 DEF Sound
<1> HIDE DEF applied, history
<1>22. /\ info'.inRange = applied.info.inRange /\ info'.concealState = applied.info.concealState
       /\ info'.offset = applied.info.offset /\ info'.spectrum = applied.info.spectrum
       /\ info'.windowSequence = applied.info.windowSequence
       /\ info'.lastWinGrpLen = applied.info.lastWinGrpLen
  <2> DEFINE f == FadeStop(next)
  <2> HIDE DEF f
  <2>1. info' = [next EXCEPT !.fade_old = f, !.concealState_old = next.concealState]
    BY <1>2 DEF TDFading, f
  <2> QED BY <1>20, <2>1 DEF Info
<1>23. info'.inRange /\ Grouped(info') /\ Fits(info'.spectrum, info'.windowSequence)
  BY <1>19, <1>22 DEF Grouped, InRange, GroupLen
<1>24. IInv'
  OBVIOUS
<1> QED BY <1>1, <1>2, <1>19, <1>23, <1>24 DEF NoiseInv

LEMMA NoiseInit == Init /\ method = "Noise" => NoiseInv
<1> SUFFICES ASSUME Init, method = "Noise" PROVE NoiseInv
  OBVIOUS
<1>1. \A old : /\ InitChannelData(old).inRange /\ Grouped(InitChannelData(old))
               /\ Fits(InitChannelData(old).spectrum, InitChannelData(old).windowSequence)
  BY DEF InitChannelData, Grouped, Fits, Silence
<1>2. Fits(out.spectrum, out.sequence)
  BY DEF Init, Fits, Silence
<1> QED BY <1>1, <1>2, InitInv DEF Init, NoiseInv

LEMMA NoiseNext == NoiseInv /\ [Next]_vars /\ method' = method => NoiseInv'
<1> SUFFICES ASSUME NoiseInv, [Next]_vars, method' = method PROVE NoiseInv'
  OBVIOUS
<1>3. IInv'
  BY NextInv DEF NoiseInv
<1>1. CASE \E frame \in Frame : GoodFrame(frame)
  BY <1>1, <1>3, RenderGroups DEF GoodFrame
<1>7. CASE \E frame \in Frame : Flush(frame)
  BY <1>7, <1>3, RenderGroups DEF Flush
<1>2. CASE LostFrame
  BY <1>2, <1>3, RenderGroups, LongIsFrame DEF LostFrame
<1>4. CASE \E m \in Methods : SetMethod(m)
  BY <1>3, <1>4 DEF SetMethod, NoiseInv
<1>5. CASE ClearHistory
  <2>1. \A old : /\ InitChannelData(old).inRange /\ Grouped(InitChannelData(old))
                 /\ Fits(InitChannelData(old).spectrum, InitChannelData(old).windowSequence)
    BY DEF InitChannelData, Grouped, Fits, Silence
  <2>2. Fits(out'.spectrum, out'.sequence)
    BY <1>5 DEF ClearHistory, Fits, Silence
  <2> QED BY <1>3, <1>5, <2>1, <2>2 DEF ClearHistory, NoiseInv
<1>6. CASE UNCHANGED vars
  BY <1>3, <1>6 DEF vars, NoiseInv
<1> QED BY <1>1, <1>2, <1>4, <1>5, <1>6, <1>7 DEF Next

-----------------------------------------------------------------------------
\* The other methods do not count windows.
LEMMA InterKeepsRange ==
  ASSUME NEW i, Sound(i), NEW ok \in BOOLEAN
  PROVE  UpdateInter(i, ok).inRange = i.inRange
<1> DEFINE j == CountValid(i, Estimable(i, ok))
<1>1. i \in Info
  BY DEF Sound
<1>2. j \in Info /\ j.inRange = i.inRange
  <2>1. Estimable(i, ok) \in BOOLEAN
    BY <1>1 DEF Estimable, Info
  <2>2. j.inRange = i.inRange
    BY <1>1 DEF CountValid, Info
  <2> QED BY <1>1, <2>1, <2>2, CountsValid
<1>3. i.concealState \in States
  BY <1>1 DEF Info
<1>4. UpdateInter(i, ok) =
        CASE i.concealState = "Ok"      -> InterOk(j, ok)
          [] i.concealState = "Single"  -> Enter(j, "Ok")
          [] i.concealState = "FadeOut" -> InterFadeOut(j)
          [] i.concealState = "Mute"    -> InterMute(j)
          [] i.concealState = "FadeIn"  -> InterFadeIn(j, ok)
  BY DEF UpdateInter
<1> HIDE DEF j
<1>5. \A state : \A k \in Info : Enter(k, state).inRange = k.inRange
  BY DEF Enter, Info
<1>6. \A index : \A k \in Info : FadeInOrOk(k, index).inRange = k.inRange
  BY <1>5 DEF FadeInOrOk, Info
<1>7. \A c : \A k \in Info : [k EXCEPT !.cntFadeFrames = c].inRange = k.inRange
  BY DEF Info
<1>8. InterOk(j, ok).inRange = j.inRange
  BY <1>2 DEF InterOk, Info
<1>9. InterMute(j).inRange = j.inRange
  BY <1>2, <1>6 DEF InterMute
<1>10. InterFadeOut(j).inRange = j.inRange
  BY <1>2, Zenon DEF InterFadeOut, FadeInOrOk, Enter, Info
<1>11. InterFadeIn(j, ok).inRange = j.inRange
  BY <1>2, Zenon DEF InterFadeIn, Enter, Info
<1> QED BY <1>2, <1>3, <1>4, <1>5, <1>8, <1>9, <1>10, <1>11 DEF States

LEMMA RenderKeepsRange ==
  ASSUME IInv, info.inRange, method # "Noise",
         NEW ok \in BOOLEAN, NEW frame \in Frame, Render(ok, frame)
  PROVE  info'.inRange
<1> DEFINE release == MuteReleaseActive(ok)
           aged == [info EXCEPT !.spectrum = Older(@)]
           stored == IF ok /\ ~release THEN Store(aged, frame) ELSE aged
           updated == UpdateState(stored, ok)
           applied == ApplyMethod(updated, Kept(aged), Parsed(frame), ok, release)
           history == [k \in 0..1 |-> IF k = 0 THEN applied.info.prevFrameOk[1] ELSE ok]
           next == [applied.info EXCEPT !.prevFrameOk = history]
<1>1. Sound(info) /\ method \in {"Inter", "Mute"} /\ method \in Methods
  BY ConcealAssumption DEF IInv, TypeOK, Sound
<1>2. info' = TDFading(next)
  BY DEF Render
<1>3. Sound(aged) /\ aged.inRange = info.inRange
  <2>1. aged.inRange = info.inRange
    BY <1>1 DEF Sound, Info
  <2> QED BY <1>1, <2>1, AgesSound
<1> HIDE DEF release, aged
<1>4. Sound(stored) /\ stored.inRange = aged.inRange
  <2>1. Sound(Store(aged, frame))
    BY <1>3, StoresSound
  <2>2. Store(aged, frame).inRange = aged.inRange
    BY <1>3 DEF Store, Sound, Info
  <2> QED BY <1>3, <2>1, <2>2
<1> HIDE DEF stored
<1>5. updated.inRange = stored.inRange
  BY <1>1, <1>4, InterKeepsRange DEF UpdateState
<1>6. Sound(updated)
  BY <1>1, <1>4, UpdateStateSound
<1> HIDE DEF updated
<1>7. applied.info \in {updated, Muted(updated)}
  BY <1>1 DEF ApplyMethod, ApplyInter, ApplyMute
<1>8. applied.info \in Info /\ applied.info.inRange = updated.inRange
  <2>1. Muted(updated).inRange = updated.inRange
    BY <1>6 DEF Muted, Sound, Info
  <2>2. Muted(updated) \in Info
    <3>1. WinSeqAfter(updated.windowSequence) \in WindowSequences
      BY DEF WinSeqAfter, WindowSequences
    <3> QED BY <1>6, <3>1 DEF Muted, Sound, Info
  <2> QED BY <1>6, <1>7, <2>1, <2>2 DEF Sound
<1> HIDE DEF applied, history
<1>9. next.inRange = applied.info.inRange
  BY <1>8 DEF Info
<1>10. TDFading(next).inRange = next.inRange
  <2>1. DOMAIN next = DOMAIN applied.info /\ "inRange" \in DOMAIN applied.info
    BY <1>8 DEF Info
  <2> HIDE DEF next
  <2> QED BY <2>1 DEF TDFading
<1> QED BY <1>2, <1>3, <1>4, <1>5, <1>8, <1>9, <1>10

\* What every method keeps as long as it is not switched.
Unswitched == info.inRange /\ (method = "Noise" => NoiseInv)
SingleInv == IInv /\ (~switched => Unswitched)

LEMMA SingleInit == Init => SingleInv
<1> SUFFICES ASSUME Init PROVE SingleInv
  OBVIOUS
<1>1. info.inRange
  BY DEF Init, InitChannelData
<1> QED BY <1>1, InitInv, NoiseInit DEF SingleInv, Unswitched

\* A reset forgets what the methods before it have left.
LEMMA ClearRestarts == IInv' /\ ClearHistory => Unswitched'
<1> SUFFICES ASSUME IInv', ClearHistory PROVE Unswitched'
  OBVIOUS
<1>1. \A old : /\ InitChannelData(old).inRange /\ Grouped(InitChannelData(old))
               /\ Fits(InitChannelData(old).spectrum, InitChannelData(old).windowSequence)
  BY DEF InitChannelData, Grouped, Fits, Silence
<1>2. Fits(out'.spectrum, out'.sequence)
  BY DEF ClearHistory, Fits, Silence
<1> QED BY <1>1, <1>2 DEF ClearHistory, NoiseInv, Unswitched

LEMMA SingleNext == SingleInv /\ [Next]_vars => SingleInv'
<1> SUFFICES ASSUME SingleInv, [Next]_vars PROVE SingleInv'
  OBVIOUS
<1>1. IInv'
  BY NextInv DEF SingleInv
<1>2. CASE ClearHistory
  BY <1>1, <1>2, ClearRestarts DEF SingleInv
<1>3. ASSUME ~ClearHistory, ~switched'
      PROVE  Unswitched'
  <2>1. method' = method /\ Unswitched /\ IInv
    BY <1>3 DEF Next, GoodFrame, Flush, LostFrame, Render, SetMethod, vars, SingleInv
  <2>2. CASE method = "Noise"
    BY <2>1, <2>2, NoiseNext DEF Unswitched, NoiseInv
  <2>3. ASSUME method # "Noise" PROVE info'.inRange
    <3>1. CASE \E frame \in Frame : GoodFrame(frame)
      BY <2>1, <2>3, <3>1, RenderKeepsRange DEF GoodFrame, Unswitched
    <3>2. CASE LostFrame
      BY <2>1, <2>3, <3>2, LongIsFrame, RenderKeepsRange DEF LostFrame, Unswitched
    <3>3. CASE \E frame \in Frame : Flush(frame)
      BY <2>1, <2>3, <3>3, RenderKeepsRange DEF Flush, Unswitched
    <3>4. CASE \E m \in Methods : SetMethod(m)
      BY <2>1, <3>4 DEF SetMethod, Unswitched
    <3>5. CASE UNCHANGED vars
      BY <2>1, <3>5 DEF vars, Unswitched
    <3> QED BY <1>3, <3>1, <3>2, <3>3, <3>4, <3>5 DEF Next
  <2> QED BY <2>1, <2>2, <2>3 DEF Unswitched
<1> QED BY <1>1, <1>2, <1>3 DEF SingleInv

\* Until the method is switched, and again after a reset, the FDK_ASSERT on srcWin of
\* CConcealment_ApplyFadeOut holds for every table, slope length and group length.
THEOREM FadeOutStaysInGroup == Spec => []OffsetsStayInGroup
<1>1. SingleInv => OffsetsStayInGroup
  BY DEF SingleInv, Unswitched, OffsetsStayInGroup, OffsetsFitGroup
<1> QED BY SingleInit, SingleNext, <1>1, PTL DEF Spec

\* Until the method is switched, and again after a reset, noise substitution renders
\* a spectrum only with windows of its own kind.
THEOREM WindowsFit == Spec => []WindowsFitSpectrum
<1>1. SingleInv => WindowsFitSpectrum
  BY DEF SingleInv, Unswitched, NoiseInv, WindowsFitSpectrum, Fits
<1> QED BY SingleInit, SingleNext, <1>1, PTL DEF Spec
-----------------------------------------------------------------------------
\* The rest of the module follows the counts themselves: what one frame does to
\* the state, to the two counters and to the buffer, for either state machine.
SameSignal(i, k) == SameFrame(i, k) /\ k.prevFrameOk = i.prevFrameOk
Fades == {"Single", "FadeOut"}

\* A frame of a fade-out is at least one fade frame long: the windows that are
\* repeated fill at least one stride.
LEMMA FadesByOne ==
  ASSUME NEW i \in Info, NEW m \in 0..1
  PROVE  FadeSteps(i, m) \in Nat \ {0}
<1>1. /\ GroupLen(i) \in Nat \ {0} /\ NumWindows(i) \in Nat \ {0} /\ i.lastWinGrpLen \in Nat \ {0}
      /\ FadeSteps(i, m) \in Nat
  BY WindowSteps, ConcealAssumption DEF GroupLen, NumWindows, Info
<1> DEFINE n == NumWindows(i)
           l == i.lastWinGrpLen
           g == GroupLen(i)
           t == AttIdxStride(i)
           cw == Clip(i.offset[m].winGrp, g)
           ca == Clip(i.offset[m].attGrp, t)
           r == Repeats(i, m)
<1>2. /\ i.windowSequence = "Short" => g = l /\ l <= n
      /\ i.windowSequence # "Short" => g = 1 /\ n = 1
  BY ConcealAssumption DEF GroupLen, NumWindows, Info
<1>3. t = LET s == n \div (l + 1) IN IF s >= 1 THEN s ELSE 1
  BY DEF AttIdxStride
<1>4. i.offset[m].winGrp \in Nat /\ i.offset[m].attGrp \in Nat
  BY DEF Info, Offsets
<1>5. r = (cw + n) \div g
  BY DEF Repeats
<1>6. FadeSteps(i, m) = (ca + r) \div t
  BY DEF FadeSteps
<1> HIDE DEF n, l, g, t, r
<1>7. n \in Nat \ {0} /\ l \in Nat \ {0} /\ g \in Nat \ {0}
  BY <1>1 DEF n, l, g
<1>8. t \in Nat \ {0} /\ (t = 1 \/ t * (l + 1) <= n)
  <2> DEFINE s == n \div (l + 1)
  <2>1. s \in Nat /\ s * (l + 1) <= n
    BY <1>7
  <2>2. t = IF s >= 1 THEN s ELSE 1
    BY <1>3
  <2> HIDE DEF s
  <2> QED BY <2>1, <2>2
<1>9. cw \in Nat /\ ca \in Nat
  BY <1>4, <1>7, <1>8 DEF Clip
<1> HIDE DEF cw, ca
<1>10. g <= n /\ g * t <= n
  <2>1. CASE i.windowSequence = "Short"
    <3>1. t * (l + 1) = t * l + t /\ l * t = t * l
      BY <1>7, <1>8
    <3>2. t * l \in Nat
      BY <1>7, <1>8
    <3> QED BY <1>2, <1>7, <1>8, <2>1, <3>1, <3>2
  <2>2. CASE i.windowSequence # "Short"
    <3>1. t * (l + 1) = t * l + t /\ t * l >= t
      BY <1>7, <1>8
    <3>2. t = 1
      BY <1>2, <1>7, <1>8, <2>2, <3>1
    <3> QED BY <1>2, <2>2, <3>2
  <2> QED BY <2>1, <2>2
<1>11. r \in Nat /\ r >= t
  <2> DEFINE e == cw + n
  <2>1. e \in Nat /\ g * t <= e
    BY <1>7, <1>8, <1>9, <1>10
  <2> HIDE DEF e
  <2>2. e \div g \in Nat /\ e < g * (e \div g) + g
    BY <1>7, <2>1
  <2> DEFINE q == e \div g
  <2> HIDE DEF q
  <2>3. q \in Nat /\ g * t < g * q + g
    <3>1. g * t \in Int /\ g * q \in Int
      BY <1>7, <1>8, <2>2 DEF q
    <3> QED BY <2>1, <2>2, <3>1, <1>7 DEF q
  <2>4. q >= t
    <3>1. g * q + g = g * (q + 1)
      BY <1>7, <2>3
    <3>2. g * t < g * (q + 1)
      BY <2>3, <3>1
    <3>3. t >= q + 1 => g * t >= g * (q + 1)
      BY <1>7, <1>8, <2>3, SMTT(30)
    <3> QED BY <1>7, <1>8, <2>3, <3>2, <3>3
  <2> QED BY <1>5, <2>3, <2>4 DEF q, e
<1>12. (ca + r) \div t # 0
  <2> DEFINE e == ca + r
  <2>1. e \in Nat /\ e >= t
    BY <1>8, <1>9, <1>11
  <2> HIDE DEF e
  <2>2. e < t * (e \div t) + t
    BY <1>8, <2>1
  <2>3. ASSUME e \div t = 0 PROVE FALSE
    <3>1. t * 0 = 0
      BY <1>8
    <3> QED BY <1>8, <2>1, <2>2, <2>3, <3>1
  <2> QED BY <2>3 DEF e
<1> QED BY <1>1, <1>6, <1>12

LEMMA CountsOn ==
  ASSUME NEW i \in Info, i.cntFadeFrames + NumShort <= NumFactors
  PROVE  LET k == CountFadeOut(i)
         IN  /\ SameSignal(i, k) /\ k.concealState = i.concealState
             /\ k.cntValidFrames = i.cntValidFrames
             /\ k.cntFadeFrames >= i.cntFadeFrames + 1
<1> DEFINE k == CountFadeOut(i)
           n == FadeSteps(i, 0)
<1>1. n \in Nat \ {0}
  BY FadesByOne
<1>2. k.cntFadeFrames = i.cntFadeFrames + n
  BY DEF CountFadeOut, Info
<1>3. /\ SameSignal(i, k) /\ k.concealState = i.concealState
      /\ k.cntValidFrames = i.cntValidFrames
  BY DEF CountFadeOut, SameSignal, SameFrame, Info
<1> HIDE DEF k, n
<1>4. k.cntFadeFrames >= i.cntFadeFrames + 1
  BY <1>1, <1>2, CountTyped
<1> QED BY <1>3, <1>4 DEF k

LEMMA EntersOn ==
  ASSUME NEW i \in Info, NEW s \in States
  PROVE  LET k == Enter(i, s)
         IN  /\ k \in Info /\ SameSignal(i, k) /\ k.concealState = s
             /\ k.cntFadeFrames = i.cntFadeFrames /\ k.cntValidFrames = i.cntValidFrames
BY DEF Enter, SameSignal, SameFrame, Info

LEMMA ResetsOn ==
  ASSUME NEW i \in Info
  PROVE  LET k == ResetOffsets(i)
         IN  /\ k \in Info /\ SameSignal(i, k) /\ k.concealState = i.concealState
             /\ k.cntFadeFrames = i.cntFadeFrames /\ k.cntValidFrames = i.cntValidFrames
<1>1. ResetOffsets(i) \in Info
  BY ResetsWindows
<1> QED BY <1>1 DEF ResetOffsets, SameSignal, SameFrame, Info

LEMMA HoldsOn ==
  ASSUME NEW i \in Info, NEW ok \in BOOLEAN
  PROVE  LET k == HoldOffsets(i, ok)
         IN  /\ k \in Info /\ SameSignal(i, k) /\ k.concealState = i.concealState
             /\ k.cntFadeFrames = i.cntFadeFrames /\ k.cntValidFrames = i.cntValidFrames
BY ResetsOn DEF HoldOffsets, SameSignal, SameFrame

LEMMA CountsValidOn ==
  ASSUME NEW i \in Info, NEW v \in BOOLEAN
  PROVE  LET k == CountValid(i, v)
         IN  /\ k \in Info /\ SameSignal(i, k) /\ k.concealState = i.concealState
             /\ k.cntFadeFrames = i.cntFadeFrames
             /\ i.concealState # "Ok" =>
                  k.cntValidFrames = IF v THEN i.cntValidFrames + 1 ELSE 0
<1>1. CountValid(i, v) \in Info
  BY CountsValid
<1> QED BY <1>1 DEF CountValid, SameSignal, SameFrame, Info

LEMMA FadesInOn ==
  ASSUME NEW i \in Info, NEW n \in Int
  PROVE  LET k == FadeInOrOk(i, n)
         IN  /\ SameSignal(i, k)
             /\ k.concealState = "Ok" \/ (k.concealState = "FadeIn" /\ k.cntFadeFrames = n)
<1>1. CASE NumFadeIn > 0
  <2>1. FadeInOrOk(i, n) = [i EXCEPT !.concealState = "FadeIn", !.cntFadeFrames = n]
    BY <1>1 DEF FadeInOrOk
  <2> QED BY <2>1 DEF SameSignal, SameFrame, Info
<1>2. CASE ~ (NumFadeIn > 0)
  BY <1>2, EntersOn DEF FadeInOrOk, States
<1> QED BY <1>1, <1>2

LEMMA FadesOutOn ==
  ASSUME NEW i \in Info, i.cntFadeFrames + NumShort < NumFactors, NEW s \in Fades
  PROVE  LET k == CountFadeOut(Enter(i, s))
         IN  /\ SameSignal(i, k) /\ k.concealState = s
             /\ k.cntValidFrames = i.cntValidFrames
             /\ k.cntFadeFrames >= i.cntFadeFrames + 1
<1> DEFINE j == Enter(i, s)
<1>1. /\ j \in Info /\ SameSignal(i, j) /\ j.concealState = s
      /\ j.cntFadeFrames = i.cntFadeFrames /\ j.cntValidFrames = i.cntValidFrames
  BY EntersOn DEF Fades, States
<1> HIDE DEF j
<1>2. j.cntFadeFrames + NumShort <= NumFactors
  BY <1>1, CountTyped, Constants
<1> DEFINE k == CountFadeOut(j)
<1>3. /\ SameSignal(j, k) /\ k.concealState = j.concealState
      /\ k.cntValidFrames = j.cntValidFrames
      /\ k.cntFadeFrames >= j.cntFadeFrames + 1
  BY <1>1, <1>2, CountsOn
<1> HIDE DEF k
<1>4. /\ SameSignal(i, k) /\ k.concealState = s
      /\ k.cntValidFrames = i.cntValidFrames
      /\ k.cntFadeFrames >= i.cntFadeFrames + 1
  BY <1>1, <1>3 DEF SameSignal, SameFrame
<1> QED BY <1>4 DEF j, k
-----------------------------------------------------------------------------
\* What CConcealment_UpdateState does in one frame, i before and k after it.
LostNoise(i, k) ==
  \/ k.concealState = "Mute"
  \/ /\ i.concealState # "Mute" /\ k.concealState \in Fades /\ k.cntFadeFrames >= 0
     /\ i.concealState \in Fades =>
          i.cntFadeFrames < NumFadeOut /\ k.cntFadeFrames >= i.cntFadeFrames + 1
GoodNoise(i, k) ==
  CASE i.concealState \in {"Ok", "Single"} -> k.concealState = "Ok"
    [] i.concealState = "FadeIn" ->
         \/ k.concealState = "Ok"
         \/ k.concealState = "FadeIn" /\ k.cntFadeFrames = i.cntFadeFrames - 1
    [] i.concealState \in {"Mute", "FadeOut"} ->
         IF i.cntValidFrames + 1 > NumMuteRelease
         THEN k.concealState \in {"Ok", "FadeIn"}
         ELSE /\ k.concealState \in {"Mute", "FadeOut"}
              /\ k.cntValidFrames = i.cntValidFrames + 1
              /\ k.concealState = "FadeOut" =>
                   i.concealState = "FadeOut" /\ k.cntFadeFrames >= i.cntFadeFrames

LEMMA NoiseOkOn ==
  ASSUME NEW i \in Info, NEW ok \in BOOLEAN
  PROVE  LET k == NoiseOk(i, ok)
         IN  /\ SameSignal(i, k)
             /\ IF ok THEN k = i
                ELSE \/ k.concealState = "Mute"
                     \/ k.concealState = "Single" /\ k.cntFadeFrames >= 0
<1> DEFINE n == 0
           h == [i EXCEPT !.cntFadeFrames = n, !.cntValidFrames = n]
           j == ResetOffsets(h)
           k == NoiseOk(i, ok)
<1>1. NoiseOk(i, ok) = IF ok THEN i
                       ELSE IF NumFadeOut > 0 THEN CountFadeOut(Enter(j, "Single"))
                                              ELSE Enter(j, "Mute")
  BY DEF NoiseOk
<1>2. n = 0 /\ n \in Nat /\ n \in (-1)..NumFactors
  BY Constants
<1> HIDE DEF n
<1>3. h \in Info /\ SameSignal(i, h) /\ h.cntFadeFrames = n
  BY <1>2 DEF SameSignal, SameFrame, Info
<1> HIDE DEF h
<1>4. j \in Info /\ SameSignal(i, j) /\ j.cntFadeFrames = n
  BY <1>3, ResetsOn DEF SameSignal, SameFrame
<1> HIDE DEF j, k
<1>5. CASE ok
  <2>1. k = i
    BY <1>1, <1>5 DEF k
  <2> QED BY <1>5, <2>1 DEF SameSignal, SameFrame, k
<1>6. CASE ~ok /\ NumFadeOut > 0
  <2>1. k = CountFadeOut(Enter(j, "Single"))
    BY <1>1, <1>6 DEF k
  <2>2. j.cntFadeFrames + NumShort < NumFactors
    BY <1>2, <1>4, <1>6, Constants
  <2>3. /\ SameSignal(j, k) /\ k.concealState = "Single"
        /\ k.cntFadeFrames >= j.cntFadeFrames + 1
    BY <1>4, <2>1, <2>2, FadesOutOn DEF Fades
  <2>4. k.cntFadeFrames >= 0
    <3>1. Sound(k)
      BY <1>4, <2>1, <2>2, FadesOut
    <3>2. k.cntFadeFrames \in Int
      BY <3>1, CountTyped DEF Sound
    <3> QED BY <1>2, <1>4, <2>3, <3>2
  <2> QED BY <1>4, <1>6, <2>3, <2>4 DEF SameSignal, SameFrame, k
<1>7. CASE ~ok /\ ~ (NumFadeOut > 0)
  <2>1. k = Enter(j, "Mute")
    BY <1>1, <1>7 DEF k
  <2>2. SameSignal(j, k) /\ k.concealState = "Mute"
    BY <1>4, <2>1, EntersOn DEF States
  <2> QED BY <1>4, <1>7, <2>2 DEF SameSignal, SameFrame, k
<1> QED BY <1>5, <1>6, <1>7

LEMMA NoiseSingleOn ==
  ASSUME NEW i \in Info, NEW ok \in BOOLEAN
  PROVE  LET k == NoiseSingle(i, ok)
         IN  /\ SameSignal(i, k)
             /\ IF ok THEN k.concealState = "Ok"
                ELSE \/ k.concealState = "Mute"
                     \/ /\ k.concealState = "FadeOut" /\ i.cntFadeFrames < NumFadeOut
                        /\ k.cntFadeFrames >= i.cntFadeFrames + 1
<1> DEFINE k == NoiseSingle(i, ok)
<1>1. k = IF ok THEN Enter(i, "Ok")
          ELSE IF FadedOut(i) THEN Enter(i, "Mute") ELSE CountFadeOut(Enter(i, "FadeOut"))
  BY DEF NoiseSingle
<1> HIDE DEF k
<1>2. CASE ok
  BY <1>1, <1>2, EntersOn DEF States, k
<1>3. CASE ~ok /\ FadedOut(i)
  BY <1>1, <1>3, EntersOn DEF States, k
<1>4. CASE ~ok /\ ~FadedOut(i)
  <2>1. i.cntFadeFrames + NumShort < NumFactors /\ i.cntFadeFrames < NumFadeOut
    BY <1>4, CountTyped, Constants DEF FadedOut
  <2>2. /\ SameSignal(i, k) /\ k.concealState = "FadeOut"
        /\ k.cntFadeFrames >= i.cntFadeFrames + 1
    BY <1>1, <1>4, <2>1, FadesOutOn DEF Fades
  <2> QED BY <1>4, <2>1, <2>2 DEF k
<1> QED BY <1>2, <1>3, <1>4

LEMMA NoiseFadeOutOn ==
  ASSUME NEW i \in Info, NEW ok \in BOOLEAN, i.concealState = "FadeOut",
         i.cntFadeFrames < NumFactors
  PROVE  LET k == NoiseFadeOut(i, ok)
         IN  /\ SameSignal(i, k)
             /\ IF Released(i) THEN k.concealState \in {"Ok", "FadeIn"}
                ELSE /\ k.cntValidFrames = i.cntValidFrames
                     /\ \/ k.concealState = "Mute"
                        \/ /\ k.concealState = "FadeOut" /\ i.cntFadeFrames < NumFadeOut
                           /\ k.cntFadeFrames >= i.cntFadeFrames + 1
<1> DEFINE k == NoiseFadeOut(i, ok)
           h == HoldOffsets(i, ok)
<1>1. k = IF Released(i) THEN FadeInOrOk(i, EquiFadeIn(i.cntFadeFrames))
          ELSE IF FadedOut(i) THEN Enter(h, "Mute") ELSE CountFadeOut(h)
  BY DEF NoiseFadeOut
<1>2. /\ h \in Info /\ SameSignal(i, h) /\ h.concealState = "FadeOut"
      /\ h.cntFadeFrames = i.cntFadeFrames /\ h.cntValidFrames = i.cntValidFrames
  BY HoldsOn
<1> HIDE DEF k, h
<1>3. CASE Released(i)
  <2>1. EquiFadeIn(i.cntFadeFrames) \in Int
    BY EquiFadesIn
  <2>2. k = FadeInOrOk(i, EquiFadeIn(i.cntFadeFrames))
    BY <1>1, <1>3
  <2>3. SameSignal(i, k) /\ k.concealState \in {"Ok", "FadeIn"}
    BY <2>1, <2>2, FadesInOn
  <2> QED BY <1>3, <2>3 DEF k
<1>4. CASE ~Released(i) /\ FadedOut(i)
  <2>1. k = Enter(h, "Mute")
    BY <1>1, <1>4
  <2>2. SameSignal(h, k) /\ k.concealState = "Mute" /\ k.cntValidFrames = i.cntValidFrames
    BY <1>2, <2>1, EntersOn DEF States
  <2> QED BY <1>2, <1>4, <2>2 DEF SameSignal, SameFrame, k
<1>5. CASE ~Released(i) /\ ~FadedOut(i)
  <2>1. h.cntFadeFrames + NumShort <= NumFactors /\ i.cntFadeFrames < NumFadeOut
    BY <1>2, <1>5, CountTyped, Constants DEF FadedOut
  <2>2. k = CountFadeOut(h)
    BY <1>1, <1>5
  <2>3. /\ SameSignal(h, k) /\ k.concealState = "FadeOut"
        /\ k.cntValidFrames = i.cntValidFrames /\ k.cntFadeFrames >= i.cntFadeFrames + 1
    BY <1>2, <2>1, <2>2, CountsOn
  <2> QED BY <1>2, <1>5, <2>1, <2>3 DEF SameSignal, SameFrame, k
<1> QED BY <1>3, <1>4, <1>5

LEMMA NoiseMuteOn ==
  ASSUME NEW i \in Info, NEW ok \in BOOLEAN, i.concealState = "Mute"
  PROVE  LET k == NoiseMute(i, ok)
         IN  /\ SameSignal(i, k)
             /\ IF Released(i) THEN k.concealState \in {"Ok", "FadeIn"}
                ELSE k.concealState = "Mute" /\ k.cntValidFrames = i.cntValidFrames
<1>1. NumFadeIn - 1 \in Int
  BY Constants
<1>2. LET k == FadeInOrOk(i, NumFadeIn - 1)
      IN  SameSignal(i, k) /\ k.concealState \in {"Ok", "FadeIn"}
  BY <1>1, FadesInOn
<1> QED BY <1>2, HoldsOn DEF NoiseMute

LEMMA NoiseFadeInOn ==
  ASSUME NEW i \in Info, NEW ok \in BOOLEAN, i.concealState = "FadeIn",
         i.cntFadeFrames \in 0..NumFadeIn
  PROVE  LET k == NoiseFadeIn(i, ok)
         IN  /\ SameSignal(i, k)
             /\ IF ok THEN \/ k.concealState = "Ok"
                           \/ k.concealState = "FadeIn" /\ k.cntFadeFrames = i.cntFadeFrames - 1
                ELSE \/ k.concealState = "Mute"
                     \/ k.concealState = "FadeOut" /\ k.cntFadeFrames >= 0
<1> DEFINE c == i.cntFadeFrames - 1
           j == [i EXCEPT !.cntFadeFrames = c]
           d == EquiFadeOut(i.cntFadeFrames) - 1
           g == [i EXCEPT !.cntFadeFrames = d]
           h == ResetOffsets(g)
           k == NoiseFadeIn(i, ok)
<1>1. c \in Int /\ c \in (-1)..(NumFadeIn - 1) /\ c \in (-1)..NumFactors /\ c = i.cntFadeFrames - 1
  BY Constants
<1>2. d \in Int /\ d >= -1 /\ d <= NumFadeIn /\ d \in (-1)..NumFactors
  <2>1. i.cntFadeFrames \in FactorIndex
    BY Constants DEF FactorIndex
  <2>2. EquiFadeOut(i.cntFadeFrames) \in 0..(i.cntFadeFrames + 1)
    BY <2>1, EquiFadeOutRange
  <2>3. i.cntFadeFrames \in Int
    BY CountTyped
  <2> QED BY <2>2, <2>3, Constants
<1>3. k = IF ok THEN IF c < 0 THEN Enter(j, "Ok") ELSE j
          ELSE IF NumFadeOut > 0 THEN CountFadeOut(Enter(h, "FadeOut")) ELSE Enter(j, "Mute")
  <2>1. j.cntFadeFrames = c
    BY DEF Info
  <2> QED BY <2>1 DEF NoiseFadeIn
<1> HIDE DEF c, d
<1>4. j \in Info /\ j.concealState = "FadeIn" /\ j.cntFadeFrames = c /\ SameSignal(i, j)
  BY <1>1, SetsCount DEF Info, SameSignal, SameFrame
<1>5. g \in Info /\ SameSignal(i, g) /\ g.cntFadeFrames = d
  BY <1>2, SetsCount DEF Info, SameSignal, SameFrame
<1> HIDE DEF g
<1>6. h \in Info /\ SameSignal(i, h) /\ h.cntFadeFrames = d
  BY <1>5, ResetsOn DEF SameSignal, SameFrame
<1> HIDE DEF j, h, k
<1>7. CASE ok /\ c < 0
  <2>1. SameSignal(j, k) /\ k.concealState = "Ok"
    BY <1>3, <1>4, <1>7, EntersOn DEF States
  <2> QED BY <1>4, <1>7, <2>1 DEF SameSignal, SameFrame, k
<1>8. CASE ok /\ ~(c < 0)
  <2>1. k = j
    BY <1>3, <1>8
  <2> QED BY <1>1, <1>4, <1>8, <2>1 DEF k
<1>9. CASE ~ok /\ NumFadeOut > 0
  <2>1. h.cntFadeFrames + NumShort < NumFactors
    BY <1>2, <1>6, Constants
  <2>2. k = CountFadeOut(Enter(h, "FadeOut"))
    BY <1>3, <1>9
  <2>3. SameSignal(h, k) /\ k.concealState = "FadeOut" /\ k.cntFadeFrames >= d + 1
    BY <1>6, <2>1, <2>2, FadesOutOn DEF Fades
  <2>4. k.cntFadeFrames >= 0
    <3>1. Sound(k)
      BY <1>6, <2>1, <2>2, FadesOut
    <3>2. k.cntFadeFrames \in Int
      BY <3>1, CountTyped DEF Sound
    <3> QED BY <1>2, <2>3, <3>2
  <2> QED BY <1>6, <1>9, <2>3, <2>4 DEF SameSignal, SameFrame, k
<1>10. CASE ~ok /\ ~(NumFadeOut > 0)
  <2>1. SameSignal(j, k) /\ k.concealState = "Mute"
    BY <1>3, <1>4, <1>10, EntersOn DEF States
  <2> QED BY <1>4, <1>10, <2>1 DEF SameSignal, SameFrame, k
<1> QED BY <1>7, <1>8, <1>9, <1>10

LEMMA UpdateNoiseOn ==
  ASSUME NEW i, Sound(i), NEW ok \in BOOLEAN
  PROVE  LET k == UpdateNoise(i, ok)
         IN  /\ SameSignal(i, k)
             /\ IF ok THEN GoodNoise(i, k) ELSE LostNoise(i, k)
<1> DEFINE j == CountValid(i, ok)
           k == UpdateNoise(i, ok)
<1>1. i \in Info /\ Bounded(i) /\ i.cntValidFrames \in Nat /\ i.cntFadeFrames \in Int
  BY CountTyped DEF Sound, Info
<1>2. /\ j \in Info /\ SameSignal(i, j) /\ j.concealState = i.concealState
      /\ j.cntFadeFrames = i.cntFadeFrames
      /\ i.concealState # "Ok" => j.cntValidFrames = IF ok THEN i.cntValidFrames + 1 ELSE 0
  BY <1>1, CountsValidOn
<1>3. i.concealState \in States
  BY <1>1 DEF Info
<1>4. k =
        CASE i.concealState = "Ok"      -> NoiseOk(j, ok)
          [] i.concealState = "Single"  -> NoiseSingle(j, ok)
          [] i.concealState = "FadeOut" -> NoiseFadeOut(j, ok)
          [] i.concealState = "Mute"    -> NoiseMute(j, ok)
          [] i.concealState = "FadeIn"  -> NoiseFadeIn(j, ok)
  BY DEF UpdateNoise
<1> HIDE DEF j, k
<1>5. i.concealState # "Ok" => (Released(j) <=> ok /\ i.cntValidFrames + 1 > NumMuteRelease)
  BY <1>1, <1>2, Constants DEF Released
<1> SUFFICES /\ SameSignal(j, k)
             /\ IF ok THEN GoodNoise(i, k) ELSE LostNoise(i, k)
  BY <1>2 DEF SameSignal, SameFrame, k
<1>6. CASE i.concealState = "Ok"
  <2>1. k = NoiseOk(j, ok)
    BY <1>4, <1>6
  <2>2. /\ SameSignal(j, k)
        /\ IF ok THEN k = j
           ELSE \/ k.concealState = "Mute"
                \/ k.concealState = "Single" /\ k.cntFadeFrames >= 0
    BY <1>2, <2>1, NoiseOkOn
  <2> QED BY <1>2, <1>6, <2>2 DEF GoodNoise, LostNoise, Fades
<1>7. CASE i.concealState = "Single"
  <2>1. k = NoiseSingle(j, ok)
    BY <1>4, <1>7
  <2>2. /\ SameSignal(j, k)
        /\ IF ok THEN k.concealState = "Ok"
           ELSE \/ k.concealState = "Mute"
                \/ /\ k.concealState = "FadeOut" /\ j.cntFadeFrames < NumFadeOut
                   /\ k.cntFadeFrames >= j.cntFadeFrames + 1
    BY <1>2, <2>1, NoiseSingleOn
  <2>3. k.concealState = "FadeOut" /\ ~ok => k.cntFadeFrames >= 0
    <3>1. Sound(k)
      BY UpdateNoiseSound DEF k
    <3>2. k.cntFadeFrames \in Int
      BY <3>1, CountTyped DEF Sound
    <3>3. i.cntFadeFrames >= -1
      BY <1>1, CountTyped, Constants
    <3> QED BY <1>1, <1>2, <2>2, <3>2, <3>3
  <2> QED BY <1>2, <1>7, <2>2, <2>3 DEF GoodNoise, LostNoise, Fades
<1>8. CASE i.concealState = "FadeOut"
  <2>1. k = NoiseFadeOut(j, ok) /\ j.cntFadeFrames < NumFactors
    BY <1>1, <1>2, <1>4, <1>8 DEF Bounded
  <2>2. /\ SameSignal(j, k)
        /\ IF Released(j) THEN k.concealState \in {"Ok", "FadeIn"}
           ELSE /\ k.cntValidFrames = j.cntValidFrames
                /\ \/ k.concealState = "Mute"
                   \/ /\ k.concealState = "FadeOut" /\ j.cntFadeFrames < NumFadeOut
                      /\ k.cntFadeFrames >= j.cntFadeFrames + 1
    BY <1>2, <1>8, <2>1, NoiseFadeOutOn
  <2>3. k.cntFadeFrames \in Int
    <3>1. Sound(k)
      BY UpdateNoiseSound DEF k
    <3> QED BY <3>1, CountTyped DEF Sound
  <2>4. i.cntFadeFrames >= -1
    BY <1>1, CountTyped, Constants
  <2>5. CASE ok
    <3>1. GoodNoise(i, k)
      BY <1>1, <1>2, <1>5, <1>8, <2>2, <2>3, <2>5 DEF GoodNoise
    <3> QED BY <2>2, <2>5, <3>1
  <2>6. CASE ~ok
    <3>1. LostNoise(i, k)
      BY <1>1, <1>2, <1>5, <1>8, <2>2, <2>3, <2>4, <2>6 DEF LostNoise, Fades
    <3> QED BY <2>2, <2>6, <3>1
  <2> QED BY <2>5, <2>6
<1>9. CASE i.concealState = "Mute"
  <2>1. k = NoiseMute(j, ok)
    BY <1>4, <1>9
  <2>2. /\ SameSignal(j, k)
        /\ IF Released(j) THEN k.concealState \in {"Ok", "FadeIn"}
           ELSE k.concealState = "Mute" /\ k.cntValidFrames = j.cntValidFrames
    BY <1>2, <1>9, <2>1, NoiseMuteOn
  <2> QED BY <1>2, <1>5, <1>9, <2>2 DEF GoodNoise, LostNoise
<1>10. CASE i.concealState = "FadeIn"
  <2>1. k = NoiseFadeIn(j, ok) /\ j.cntFadeFrames \in 0..NumFadeIn
    BY <1>1, <1>2, <1>4, <1>10 DEF Bounded
  <2>2. /\ SameSignal(j, k)
        /\ IF ok THEN \/ k.concealState = "Ok"
                      \/ k.concealState = "FadeIn" /\ k.cntFadeFrames = j.cntFadeFrames - 1
           ELSE \/ k.concealState = "Mute"
                \/ k.concealState = "FadeOut" /\ k.cntFadeFrames >= 0
    BY <1>2, <1>10, <2>1, NoiseFadeInOn
  <2> QED BY <1>2, <1>10, <2>2 DEF GoodNoise, LostNoise, Fades
<1> QED BY <1>3, <1>6, <1>7, <1>8, <1>9, <1>10 DEF States
-----------------------------------------------------------------------------
\* The same for energy interpolation; e says whether the frame before the current one
\* can be estimated, and `heard' whether it or the current one is good.
StepInter(i, k, e, heard) ==
  CASE i.concealState = "Ok" ->
         IF e THEN k.concealState = "Ok"
         ELSE /\ k.cntValidFrames = 0
              /\ k.concealState = "Mute" \/ (k.concealState = "FadeOut" /\ k.cntFadeFrames = 0)
    [] i.concealState = "Single" -> k.concealState = "Ok"
    [] i.concealState = "FadeOut" ->
         IF e /\ i.cntValidFrames + 1 > NumMuteRelease
         THEN \/ k.concealState = "Ok"
              \/ k.concealState = "FadeIn" /\ k.cntFadeFrames = EquiFadeIn(i.cntFadeFrames)
         ELSE /\ k.cntValidFrames = IF e THEN i.cntValidFrames + 1 ELSE 0
              /\ \/ k.concealState = "Mute"
                 \/ /\ k.concealState = "FadeOut" /\ k.cntFadeFrames = i.cntFadeFrames + 1
                    /\ k.cntFadeFrames < NumFadeOut
    [] i.concealState = "Mute" ->
         IF e /\ i.cntValidFrames + 1 > NumMuteRelease
         THEN k.concealState \in {"Ok", "FadeIn"}
         ELSE /\ k.cntValidFrames = IF e THEN i.cntValidFrames + 1 ELSE 0
              /\ k.concealState = "Mute"
    [] i.concealState = "FadeIn" ->
         IF heard
         THEN \/ k.concealState = "Ok"
              \/ k.concealState = "FadeIn" /\ k.cntFadeFrames = i.cntFadeFrames - 1
         ELSE \/ k.concealState = "Mute"
              \/ /\ k.concealState = "FadeOut"
                 /\ k.cntFadeFrames = EquiFadeOut(i.cntFadeFrames)

LEMMA InterOkOn ==
  ASSUME NEW i \in Info, NEW ok \in BOOLEAN
  PROVE  LET k == InterOk(i, ok)
         IN  /\ SameSignal(i, k)
             /\ IF Estimable(i, ok) THEN k = i
                ELSE /\ k.cntValidFrames = 0
                     /\ \/ k.concealState = "Mute"
                        \/ k.concealState = "FadeOut" /\ k.cntFadeFrames = 0
<1> DEFINE s == IF NumFadeOut > 0 THEN "FadeOut" ELSE "Mute"
           n == 0
           k == InterOk(i, ok)
<1>1. k = IF Estimable(i, ok) THEN i
          ELSE [i EXCEPT !.concealState = s, !.cntFadeFrames = n, !.cntValidFrames = n]
  BY DEF InterOk
<1>2. n = 0 /\ s \in {"FadeOut", "Mute"}
  OBVIOUS
<1> HIDE DEF s, n, k
<1>3. CASE Estimable(i, ok)
  BY <1>1, <1>3 DEF SameSignal, SameFrame, k
<1>4. CASE ~Estimable(i, ok)
  <2>1. k = [i EXCEPT !.concealState = s, !.cntFadeFrames = n, !.cntValidFrames = n]
    BY <1>1, <1>4
  <2>2. SameSignal(i, k) /\ k.concealState = s /\ k.cntFadeFrames = n /\ k.cntValidFrames = n
    BY <2>1 DEF SameSignal, SameFrame, Info
  <2> QED BY <1>2, <1>4, <2>2 DEF k
<1> QED BY <1>3, <1>4

LEMMA InterFadeOutOn ==
  ASSUME NEW i \in Info, i.concealState = "FadeOut", i.cntFadeFrames < NumFactors
  PROVE  LET k == InterFadeOut(i)
         IN  /\ SameSignal(i, k)
             /\ IF Released(i)
                THEN \/ k.concealState = "Ok"
                     \/ k.concealState = "FadeIn" /\ k.cntFadeFrames = EquiFadeIn(i.cntFadeFrames)
                ELSE /\ k.cntValidFrames = i.cntValidFrames
                     /\ \/ k.concealState = "Mute"
                        \/ /\ k.concealState = "FadeOut"
                           /\ k.cntFadeFrames = i.cntFadeFrames + 1
                           /\ k.cntFadeFrames < NumFadeOut
<1> DEFINE c == i.cntFadeFrames + 1
           j == [i EXCEPT !.cntFadeFrames = c]
           k == InterFadeOut(i)
<1>1. c \in (-1)..NumFactors /\ c \in Int /\ c = i.cntFadeFrames + 1
  BY CountTyped, Constants
<1>2. k = IF Released(i) THEN FadeInOrOk(j, EquiFadeIn(i.cntFadeFrames))
          ELSE IF FadedOut(j) THEN Enter(j, "Mute") ELSE j
  BY DEF InterFadeOut
<1> HIDE DEF c
<1>3. /\ j \in Info /\ j.concealState = "FadeOut" /\ j.cntFadeFrames = c
      /\ SameSignal(i, j) /\ j.cntValidFrames = i.cntValidFrames
  BY <1>1, SetsCount DEF Info, SameSignal, SameFrame
<1> HIDE DEF j, k
<1>4. CASE Released(i)
  <2>1. EquiFadeIn(i.cntFadeFrames) \in Int
    BY EquiFadesIn
  <2>2. /\ SameSignal(j, k)
        /\ \/ k.concealState = "Ok"
           \/ k.concealState = "FadeIn" /\ k.cntFadeFrames = EquiFadeIn(i.cntFadeFrames)
    BY <1>2, <1>3, <1>4, <2>1, FadesInOn
  <2> QED BY <1>3, <1>4, <2>2 DEF SameSignal, SameFrame, k
<1>5. CASE ~Released(i) /\ FadedOut(j)
  <2>1. SameSignal(j, k) /\ k.concealState = "Mute" /\ k.cntValidFrames = j.cntValidFrames
    BY <1>2, <1>3, <1>5, EntersOn DEF States
  <2> QED BY <1>3, <1>5, <2>1 DEF SameSignal, SameFrame, k
<1>6. CASE ~Released(i) /\ ~FadedOut(j)
  <2>1. k = j /\ c < NumFadeOut
    BY <1>1, <1>2, <1>3, <1>6, Constants DEF FadedOut
  <2> QED BY <1>1, <1>3, <1>6, <2>1 DEF k
<1> QED BY <1>4, <1>5, <1>6

LEMMA InterMuteOn ==
  ASSUME NEW i \in Info, i.concealState = "Mute"
  PROVE  LET k == InterMute(i)
         IN  /\ SameSignal(i, k)
             /\ IF Released(i) THEN k.concealState \in {"Ok", "FadeIn"} ELSE k = i
<1>1. NumFadeIn - 1 \in Int
  BY Constants
<1>2. LET k == FadeInOrOk(i, NumFadeIn - 1)
      IN  SameSignal(i, k) /\ k.concealState \in {"Ok", "FadeIn"}
  BY <1>1, FadesInOn
<1> QED BY <1>2 DEF InterMute, SameSignal, SameFrame

LEMMA InterFadeInOn ==
  ASSUME NEW i \in Info, NEW ok \in BOOLEAN, i.concealState = "FadeIn",
         i.cntFadeFrames \in 0..NumFadeIn
  PROVE  LET k == InterFadeIn(i, ok)
         IN  /\ SameSignal(i, k)
             /\ IF ok \/ i.prevFrameOk[1]
                THEN \/ k.concealState = "Ok"
                     \/ k.concealState = "FadeIn" /\ k.cntFadeFrames = i.cntFadeFrames - 1
                ELSE \/ k.concealState = "Mute"
                     \/ /\ k.concealState = "FadeOut"
                        /\ k.cntFadeFrames = EquiFadeOut(i.cntFadeFrames)
<1> DEFINE c == i.cntFadeFrames - 1
           j == [i EXCEPT !.cntFadeFrames = c]
           d == EquiFadeOut(i.cntFadeFrames)
           g == [i EXCEPT !.concealState = "FadeOut", !.cntFadeFrames = d]
           k == InterFadeIn(i, ok)
<1>1. c \in Int /\ c \in (-1)..NumFactors /\ c = i.cntFadeFrames - 1
  BY Constants
<1>3. k = IF ok \/ i.prevFrameOk[1]
          THEN IF c < 0 THEN Enter(j, "Ok") ELSE j
          ELSE IF NumFadeOut > 0 THEN g ELSE Enter(j, "Mute")
  <2>1. j.cntFadeFrames = c
    BY DEF Info
  <2> QED BY <2>1 DEF InterFadeIn
<1>5. g.concealState = "FadeOut" /\ g.cntFadeFrames = d /\ SameSignal(i, g)
  BY DEF Info, SameSignal, SameFrame
<1> HIDE DEF c
<1>4. j \in Info /\ j.concealState = "FadeIn" /\ j.cntFadeFrames = c /\ SameSignal(i, j)
  BY <1>1, SetsCount DEF Info, SameSignal, SameFrame
<1> HIDE DEF j, g, k
<1>6. Enter(j, "Ok").concealState = "Ok" /\ SameSignal(j, Enter(j, "Ok"))
  BY <1>4, EntersOn DEF States
<1>7. Enter(j, "Mute").concealState = "Mute" /\ SameSignal(j, Enter(j, "Mute"))
  BY <1>4, EntersOn DEF States
<1>8. CASE ok \/ i.prevFrameOk[1]
  <2>1. k = Enter(j, "Ok") \/ k = j
    BY <1>3, <1>8
  <2>2. /\ SameSignal(i, k)
        /\ \/ k.concealState = "Ok"
           \/ k.concealState = "FadeIn" /\ k.cntFadeFrames = i.cntFadeFrames - 1
    BY <1>1, <1>4, <1>6, <2>1 DEF SameSignal, SameFrame
  <2> QED BY <1>8, <2>2 DEF k
<1>9. CASE ~(ok \/ i.prevFrameOk[1])
  <2>1. k = g \/ k = Enter(j, "Mute")
    BY <1>3, <1>9
  <2>2. /\ SameSignal(i, k)
        /\ \/ k.concealState = "Mute"
           \/ k.concealState = "FadeOut" /\ k.cntFadeFrames = d
    BY <1>4, <1>5, <1>7, <2>1 DEF SameSignal, SameFrame
  <2> QED BY <1>9, <2>2 DEF k
<1> QED BY <1>8, <1>9

LEMMA UpdateInterOn ==
  ASSUME NEW i, Sound(i), NEW ok \in BOOLEAN
  PROVE  LET k == UpdateInter(i, ok)
         IN  /\ SameSignal(i, k)
             /\ StepInter(i, k, Estimable(i, ok), ok \/ i.prevFrameOk[1])
<1> DEFINE j == CountValid(i, Estimable(i, ok))
           k == UpdateInter(i, ok)
           e == Estimable(i, ok)
<1>1. i \in Info /\ Bounded(i) /\ i.cntValidFrames \in Nat /\ i.cntFadeFrames \in Int
  BY CountTyped DEF Sound, Info
<1>2. e \in BOOLEAN
  BY <1>1 DEF Estimable, Info
<1>3. /\ j \in Info /\ SameSignal(i, j) /\ j.concealState = i.concealState
      /\ j.cntFadeFrames = i.cntFadeFrames
      /\ i.concealState # "Ok" => j.cntValidFrames = IF e THEN i.cntValidFrames + 1 ELSE 0
  BY <1>1, <1>2, CountsValidOn
<1>4. i.concealState \in States
  BY <1>1 DEF Info
<1>5. k =
        CASE i.concealState = "Ok"      -> InterOk(j, ok)
          [] i.concealState = "Single"  -> Enter(j, "Ok")
          [] i.concealState = "FadeOut" -> InterFadeOut(j)
          [] i.concealState = "Mute"    -> InterMute(j)
          [] i.concealState = "FadeIn"  -> InterFadeIn(j, ok)
  BY DEF UpdateInter
<1>6. Estimable(j, ok) = e /\ j.prevFrameOk = i.prevFrameOk
  <2>1. j.prevFrameOk = i.prevFrameOk
    BY <1>3 DEF SameSignal
  <2> QED BY <2>1, Zenon DEF Estimable
<1> HIDE DEF j, k, e
<1>7. i.concealState # "Ok" => (Released(j) <=> e /\ i.cntValidFrames + 1 > NumMuteRelease)
  BY <1>1, <1>2, <1>3, Constants DEF Released
<1> SUFFICES SameSignal(j, k) /\ StepInter(i, k, e, ok \/ i.prevFrameOk[1])
  BY <1>3 DEF SameSignal, SameFrame, k, e
<1>8. CASE i.concealState = "Ok"
  <2>1. k = InterOk(j, ok)
    BY <1>5, <1>8
  <2>2. /\ SameSignal(j, k)
        /\ IF e THEN k = j
           ELSE /\ k.cntValidFrames = 0
                /\ \/ k.concealState = "Mute"
                   \/ k.concealState = "FadeOut" /\ k.cntFadeFrames = 0
    BY <1>3, <1>6, <2>1, InterOkOn
  <2> QED BY <1>3, <1>8, <2>2 DEF StepInter
<1>9. CASE i.concealState = "Single"
  <2>1. SameSignal(j, k) /\ k.concealState = "Ok"
    BY <1>3, <1>5, <1>9, EntersOn DEF States
  <2> QED BY <1>9, <2>1 DEF StepInter
<1>10. CASE i.concealState = "FadeOut"
  <2>1. k = InterFadeOut(j) /\ j.cntFadeFrames < NumFactors
    BY <1>1, <1>3, <1>5, <1>10 DEF Bounded
  <2>2. /\ SameSignal(j, k)
        /\ IF Released(j)
           THEN \/ k.concealState = "Ok"
                \/ k.concealState = "FadeIn" /\ k.cntFadeFrames = EquiFadeIn(j.cntFadeFrames)
           ELSE /\ k.cntValidFrames = j.cntValidFrames
                /\ \/ k.concealState = "Mute"
                   \/ /\ k.concealState = "FadeOut"
                      /\ k.cntFadeFrames = j.cntFadeFrames + 1
                      /\ k.cntFadeFrames < NumFadeOut
    BY <1>3, <1>10, <2>1, InterFadeOutOn
  <2> QED BY <1>3, <1>7, <1>10, <2>2 DEF StepInter
<1>11. CASE i.concealState = "Mute"
  <2>1. k = InterMute(j)
    BY <1>5, <1>11
  <2>2. /\ SameSignal(j, k)
        /\ IF Released(j) THEN k.concealState \in {"Ok", "FadeIn"} ELSE k = j
    BY <1>3, <1>11, <2>1, InterMuteOn
  <2> QED BY <1>3, <1>7, <1>11, <2>2 DEF StepInter
<1>12. CASE i.concealState = "FadeIn"
  <2>1. k = InterFadeIn(j, ok) /\ j.cntFadeFrames \in 0..NumFadeIn
    BY <1>1, <1>3, <1>5, <1>12 DEF Bounded
  <2>2. /\ SameSignal(j, k)
        /\ IF ok \/ j.prevFrameOk[1]
           THEN \/ k.concealState = "Ok"
                \/ k.concealState = "FadeIn" /\ k.cntFadeFrames = j.cntFadeFrames - 1
           ELSE \/ k.concealState = "Mute"
                \/ /\ k.concealState = "FadeOut"
                   /\ k.cntFadeFrames = EquiFadeOut(j.cntFadeFrames)
    BY <1>3, <1>12, <2>1, InterFadeInOn
  <2> QED BY <1>3, <1>6, <1>12, <2>2 DEF StepInter
<1> QED BY <1>4, <1>8, <1>9, <1>10, <1>11, <1>12 DEF States
-----------------------------------------------------------------------------
\* One frame of the channel: the state and the counts after it,
SameCounts(i, k) ==
  /\ k.concealState = i.concealState /\ k.cntFadeFrames = i.cntFadeFrames
  /\ k.cntValidFrames = i.cntValidFrames
StateSteps(i, k, ok) ==
  /\ method = "Noise" => IF ok THEN GoodNoise(i, k) ELSE LostNoise(i, k)
  /\ method = "Inter" => StepInter(i, k, Estimable(i, ok), ok \/ i.prevFrameOk[1])
  /\ method = "Mute" => SameCounts(i, k)

\* the frames that are in the buffer, and those that are rendered: `old' those that
\* were in the buffer, `new' what the parser hands over.
Stored(old, new, ok) == IF ok /\ ~MuteReleaseActive(ok) THEN new ELSE old
Buffers(old, new, ok, k) ==
  IF method = "Noise" /\ k.concealState = "Mute" THEN {} ELSE Stored(old, new, ok)
Shows(old, new, ok, k) ==
  CASE method = "Noise" -> IF k.concealState = "Mute" THEN {}
                           ELSE IF k.concealState \in Fades THEN Stored(old, new, ok) ELSE new
    [] method = "Inter" -> IF k.concealState = "Mute" THEN {}
                           ELSE IF /\ ok /\ ~MuteReleaseActive(ok)
                                   /\ ~info.prevFrameOk[1] /\ info.prevFrameOk[0]
                                THEN old \cup new ELSE old
    [] method = "Mute"  -> IF ok THEN new ELSE {}

LEMMA StoresOn ==
  ASSUME NEW i \in Info, NEW frame \in Frame
  PROVE  LET k == Store(i, frame)
         IN  /\ SameCounts(i, k) /\ k.prevFrameOk = i.prevFrameOk
             /\ k.spectrum = Parsed(frame).spectrum
BY DEF Store, SameCounts, Info

LEMMA AgesOn ==
  ASSUME NEW i \in Info
  PROVE  LET k == [i EXCEPT !.spectrum = Older(@)]
         IN  /\ SameCounts(i, k) /\ k.prevFrameOk = i.prevFrameOk
             /\ k.spectrum = Older(i.spectrum)
BY DEF SameCounts, Info

LEMMA UpdatesOn ==
  ASSUME NEW i, Sound(i), NEW ok \in BOOLEAN, method \in Methods
  PROVE  SameSignal(i, UpdateState(i, ok)) /\ StateSteps(i, UpdateState(i, ok), ok)
<1>1. CASE method = "Noise"
  BY <1>1, UpdateNoiseOn DEF UpdateState, StateSteps
<1>2. CASE method = "Inter"
  BY <1>2, UpdateInterOn DEF UpdateState, StateSteps
<1>3. CASE method = "Mute"
  BY <1>3 DEF UpdateState, StateSteps, SameSignal, SameFrame, SameCounts
<1> QED BY <1>1, <1>2, <1>3, ConcealAssumption

\* The steps depend on nothing but the state, the counts and the last frames.
LEMMA StepsTransfer ==
  ASSUME NEW i, NEW j, NEW k, NEW l, NEW ok \in BOOLEAN, StateSteps(i, k, ok),
         SameCounts(i, j), j.prevFrameOk = i.prevFrameOk, SameCounts(k, l)
  PROVE  StateSteps(j, l, ok)
<1>1. Estimable(j, ok) = Estimable(i, ok)
  BY Zenon DEF Estimable
<1>2. method = "Noise" => IF ok THEN GoodNoise(j, l) ELSE LostNoise(j, l)
  <2>1. GoodNoise(i, k) => GoodNoise(j, l)
    BY DEF GoodNoise, SameCounts
  <2>2. LostNoise(i, k) => LostNoise(j, l)
    BY DEF LostNoise, SameCounts
  <2> QED BY <2>1, <2>2 DEF StateSteps
<1>3. method = "Inter" => StepInter(j, l, Estimable(j, ok), ok \/ j.prevFrameOk[1])
  <2> DEFINE e == Estimable(i, ok)
             h == ok \/ i.prevFrameOk[1]
  <2> HIDE DEF e, h
  <2>1. StepInter(i, k, e, h) => StepInter(j, l, e, h)
    BY DEF StepInter, SameCounts
  <2>2. method = "Inter" => StepInter(i, k, e, h)
    BY DEF StateSteps, e, h
  <2>3. Estimable(j, ok) = e /\ (ok \/ j.prevFrameOk[1]) = h
    BY <1>1, Zenon DEF e, h
  <2> QED BY <2>1, <2>2, <2>3
<1>4. method = "Mute" => SameCounts(j, l)
  BY DEF StateSteps, SameCounts
<1> QED BY <1>2, <1>3, <1>4 DEF StateSteps

\* What CConcealment_Apply does with the updated state k, `before' what was in the
\* buffer and `data' what the parser hands over.
Applied(k, before, data, ok, release, a) ==
  /\ SameCounts(k, a.info) /\ a.info.prevFrameOk = k.prevFrameOk
  /\ a.info.spectrum.from
       = IF method = "Noise" /\ k.concealState = "Mute" THEN {} ELSE k.spectrum.from
  /\ method = "Noise" =>
       a.out.spectrum.from = IF k.concealState = "Mute" THEN {}
                             ELSE IF k.concealState \in Fades THEN k.spectrum.from
                             ELSE data.spectrum.from
  /\ method = "Inter" =>
       a.out.spectrum.from
         = IF k.concealState = "Mute" THEN {}
           ELSE IF ok /\ ~release /\ ~k.prevFrameOk[1] /\ k.prevFrameOk[0]
                THEN before.spectrum.from \cup k.spectrum.from
                ELSE IF ok /\ ~release THEN before.spectrum.from ELSE k.spectrum.from
  /\ method = "Mute" =>
       (IF ok THEN a.out = data ELSE a.out = [data EXCEPT !.spectrum = Silence])

LEMMA AppliesOn ==
  ASSUME NEW k, Sound(k), NEW before, NEW data, NEW ok \in BOOLEAN, NEW release \in BOOLEAN,
         method \in Methods
  PROVE  Applied(k, before, data, ok, release, ApplyMethod(k, before, data, ok, release))
<1> DEFINE a == ApplyMethod(k, before, data, ok, release)
<1>1. k \in Info /\ k.concealState \in States
  BY DEF Sound, Info
<1>2. CASE method = "Noise"
  <2>1. a = ApplyNoise(k, data)
    BY <1>2 DEF ApplyMethod
  <2>2. CASE k.concealState \in {"Ok", "FadeIn"}
    <3>1. a = [info |-> k, out |-> data]
      BY <2>1, <2>2 DEF ApplyNoise
    <3> QED BY <1>2, <2>2, <3>1 DEF Applied, SameCounts, Fades
  <2>3. CASE k.concealState \in Fades
    <3>1. a = [info |-> RenderFadeOut(k), out |-> Kept(k)]
      BY <2>1, <2>3 DEF ApplyNoise, Fades
    <3>2. /\ SameCounts(k, RenderFadeOut(k)) /\ RenderFadeOut(k).prevFrameOk = k.prevFrameOk
          /\ RenderFadeOut(k).spectrum = k.spectrum
      BY <1>1 DEF RenderFadeOut, SameCounts, Info
    <3>3. a.info = RenderFadeOut(k) /\ a.out.spectrum = k.spectrum
      BY <3>1 DEF Kept
    <3> HIDE DEF a
    <3> QED BY <1>2, <2>3, <3>2, <3>3 DEF Applied, Fades, a
  <2>4. CASE k.concealState = "Mute"
    <3> DEFINE m == [Muted(k) EXCEPT !.spectrum = Silence]
    <3>1. a = [info |-> m, out |-> MutedOut(k)]
      BY <2>1, <2>4 DEF ApplyNoise
    <3>2. SameCounts(k, m) /\ m.prevFrameOk = k.prevFrameOk /\ m.spectrum = Silence
      BY <1>1 DEF Muted, SameCounts, Info
    <3>3. MutedOut(k).spectrum.from = {} /\ Silence.from = {}
      BY DEF MutedOut, Silence
    <3> HIDE DEF m
    <3>4. a.info = m /\ a.out = MutedOut(k)
      BY <3>1
    <3> HIDE DEF a
    <3> QED BY <1>2, <2>4, <3>2, <3>3, <3>4 DEF Applied, Fades, a
  <2> QED BY <1>1, <2>2, <2>3, <2>4 DEF States, Fades
<1>3. CASE method = "Inter"
  <2>1. a = ApplyInter(k, before, ok, release)
    BY <1>3 DEF ApplyMethod
  <2>2. CASE k.concealState = "Mute"
    <3>1. a = [info |-> Muted(k), out |-> MutedOut(k)]
      BY <2>1, <2>2 DEF ApplyInter
    <3>2. /\ SameCounts(k, Muted(k)) /\ Muted(k).prevFrameOk = k.prevFrameOk
          /\ Muted(k).spectrum = k.spectrum
      BY <1>1 DEF Muted, SameCounts, Info
    <3>3. MutedOut(k).spectrum.from = {}
      BY DEF MutedOut, Silence
    <3>4. a.info = Muted(k) /\ a.out = MutedOut(k)
      BY <3>1
    <3> HIDE DEF a
    <3> QED BY <1>3, <2>2, <3>2, <3>3, <3>4 DEF Applied, a
  <2>3. CASE k.concealState # "Mute"
    <3> DEFINE shown == IF ok /\ ~release THEN before ELSE Kept(k)
               both == ok /\ ~release /\ ~k.prevFrameOk[1] /\ k.prevFrameOk[0]
               show == IF both THEN Interpolated(shown, Kept(k)) ELSE shown
    <3>1. a = [info |-> k, out |-> show]
      BY <2>1, <2>3 DEF ApplyInter
    <3>2. Interpolated(shown, Kept(k)).spectrum.from
            = shown.spectrum.from \cup Kept(k).spectrum.from
      <4> HIDE DEF shown
      <4> QED BY DEF Interpolated
    <3>3. Kept(k).spectrum = k.spectrum
      BY DEF Kept
    <3>4. show.spectrum.from
            = IF both THEN before.spectrum.from \cup k.spectrum.from
              ELSE IF ok /\ ~release THEN before.spectrum.from ELSE k.spectrum.from
      BY <3>2, <3>3
    <3> HIDE DEF show
    <3>5. a.info = k /\ a.out = show
      BY <3>1
    <3> HIDE DEF a
    <3> QED BY <1>3, <2>3, <3>4, <3>5 DEF Applied, SameCounts, a
  <2> QED BY <2>2, <2>3
<1>4. CASE method = "Mute"
  <2>1. a = ApplyMute(k, data, ok)
    BY <1>4 DEF ApplyMethod
  <2>2. a.info = k /\ a.out = IF ok THEN data ELSE [data EXCEPT !.spectrum = Silence]
    BY <2>1 DEF ApplyMute
  <2> HIDE DEF a
  <2> QED BY <1>4, <2>2 DEF Applied, SameCounts, a
<1> QED BY <1>2, <1>3, <1>4, ConcealAssumption

\* How far the level has come.
AtStop == info.fade_old = FadeStop(info)
Ages(s) == Older(s).from

LEMMA RenderSteps ==
  ASSUME IInv, NEW ok \in BOOLEAN, NEW frame \in Frame, Render(ok, frame)
  PROVE  /\ StateSteps(info, info', ok)
         /\ info'.prevFrameOk[1] = ok /\ info'.prevFrameOk[0] = info.prevFrameOk[1]
         /\ AtStop' /\ method' = method
         /\ info'.spectrum.from
              = Buffers(Ages(info.spectrum), Parsed(frame).spectrum.from, ok, info')
         /\ out'.spectrum.from
              = Shows(Ages(info.spectrum), Parsed(frame).spectrum.from, ok, info')
<1> DEFINE release == MuteReleaseActive(ok)
           aged == [info EXCEPT !.spectrum = Older(@)]
           stored == IF ok /\ ~release THEN Store(aged, frame) ELSE aged
           updated == UpdateState(stored, ok)
           applied == ApplyMethod(updated, Kept(aged), Parsed(frame), ok, release)
           history == [k \in 0..1 |-> IF k = 0 THEN applied.info.prevFrameOk[1] ELSE ok]
           next == [applied.info EXCEPT !.prevFrameOk = history]
           old == Ages(info.spectrum)
           new == Parsed(frame).spectrum.from
<1>1. Sound(info) /\ info \in Info /\ method \in Methods
  BY DEF IInv, TypeOK, Sound
<1>2. release \in BOOLEAN
  BY DEF MuteReleaseActive
<1>3. info' = TDFading(next) /\ out' = applied.out /\ method' = method
  BY DEF Render
<1>4. /\ Sound(aged) /\ SameCounts(info, aged) /\ aged.prevFrameOk = info.prevFrameOk
      /\ aged.spectrum.from = old
  BY <1>1, AgesSound, AgesOn DEF Ages
<1>5. Kept(aged).spectrum.from = old
  BY <1>4 DEF Kept
<1>6. Kept(aged) \in Output
  <2>1. aged \in Info
    BY <1>4 DEF Sound
  <2> HIDE DEF aged
  <2> QED BY <2>1 DEF Kept, Output, Info
<1> HIDE DEF aged, release
<1>7. /\ Sound(stored) /\ SameCounts(info, stored) /\ stored.prevFrameOk = info.prevFrameOk
      /\ stored.spectrum.from = Stored(old, new, ok)
  <2>1. CASE ok /\ ~release
    <3>1. stored = Store(aged, frame) /\ Stored(old, new, ok) = new
      BY <2>1 DEF Stored, release
    <3>2. /\ Sound(stored) /\ SameCounts(aged, stored)
          /\ stored.prevFrameOk = aged.prevFrameOk
          /\ stored.spectrum = Parsed(frame).spectrum
      BY <1>4, <3>1, StoresSound, StoresOn DEF Sound
    <3> HIDE DEF stored
    <3> QED BY <1>4, <3>1, <3>2 DEF SameCounts
  <2>2. CASE ~ (ok /\ ~release)
    <3>1. stored = aged /\ Stored(old, new, ok) = old
      BY <2>2 DEF Stored, release
    <3> HIDE DEF stored
    <3> QED BY <1>4, <3>1 DEF SameCounts
  <2> QED BY <2>1, <2>2
<1> HIDE DEF stored
<1>8. Sound(updated) /\ SameSignal(stored, updated) /\ StateSteps(stored, updated, ok)
  BY <1>1, <1>7, UpdateStateSound, UpdatesOn
<1> HIDE DEF updated
<1>9. updated.spectrum.from = Stored(old, new, ok) /\ updated.prevFrameOk = info.prevFrameOk
  BY <1>7, <1>8 DEF SameSignal, SameFrame
<1>10. Sound(applied.info)
  <2>1. Parsed(frame) \in Output
    BY <1>4, StoresSound
  <2> QED BY <1>1, <1>2, <1>6, <1>8, <2>1, ApplySound
<1>11. Applied(updated, Kept(aged), Parsed(frame), ok, release, applied)
  BY <1>1, <1>2, <1>8, AppliesOn
<1> HIDE DEF applied
<1>15. /\ next \in Info /\ SameCounts(applied.info, next)
       /\ next.prevFrameOk[1] = ok /\ next.prevFrameOk[0] = info.prevFrameOk[1]
       /\ next.spectrum = applied.info.spectrum
  <2>1. applied.info \in Info
    BY <1>10 DEF Sound
  <2>2. history \in [0..1 -> BOOLEAN]
    BY <2>1 DEF Info
  <2>3. history[1] = ok /\ history[0] = info.prevFrameOk[1]
    BY <1>9, <1>11 DEF Applied
  <2> HIDE DEF history
  <2> QED BY <2>1, <2>2, <2>3 DEF SameCounts, Info
<1> HIDE DEF next
<1>16. /\ SameCounts(next, info') /\ info'.prevFrameOk = next.prevFrameOk
       /\ info'.spectrum = next.spectrum /\ info'.fade_old = FadeStop(next)
  <2> DEFINE f == FadeStop(next)
             s == next.concealState
  <2>1. info' = [next EXCEPT !.fade_old = f, !.concealState_old = s]
    BY <1>3 DEF TDFading
  <2> HIDE DEF f
  <2>2. info'.fade_old = f
    BY <1>15, <2>1 DEF Info
  <2> QED BY <1>15, <2>1, <2>2 DEF SameCounts, Info, f
<1>17. AtStop'
  <2>1. (FadeStop(info))' = FadeStop(next)
    BY <1>3, <1>16 DEF FadeStop, FadeOutIndex, LevelAt, SameCounts
  <2> QED BY <1>16, <2>1 DEF AtStop
<1>18. SameCounts(updated, info')
  BY <1>11, <1>15, <1>16 DEF Applied, SameCounts
<1>19. StateSteps(info, info', ok)
  <2>1. SameCounts(stored, info) /\ info.prevFrameOk = stored.prevFrameOk
    BY <1>7 DEF SameCounts
  <2> QED BY <1>8, <1>18, <2>1, StepsTransfer
<1>20. info'.concealState = updated.concealState
  BY <1>18 DEF SameCounts
<1>21. info'.spectrum.from = Buffers(old, new, ok, info')
  BY <1>9, <1>11, <1>15, <1>16, <1>20 DEF Applied, Buffers
<1>22. out'.spectrum.from = Shows(old, new, ok, info')
  <2>1. CASE method = "Noise"
    BY <1>3, <1>9, <1>11, <1>20, <2>1 DEF Applied, Shows
  <2>2. CASE method = "Inter"
    BY <1>3, <1>5, <1>9, <1>11, <1>20, <2>2 DEF Applied, Shows, Stored, release
  <2>3. CASE method = "Mute"
    <3>1. [Parsed(frame) EXCEPT !.spectrum = Silence].spectrum.from = {}
      BY DEF Parsed, Silence
    <3>2. applied.out.spectrum.from = IF ok THEN new ELSE {}
      BY <1>11, <2>3, <3>1 DEF Applied
    <3> QED BY <1>3, <2>3, <3>2 DEF Shows
  <2> QED BY <1>1, <2>1, <2>2, <2>3, ConcealAssumption
<1> QED BY <1>3, <1>15, <1>16, <1>17, <1>19, <1>21, <1>22
-----------------------------------------------------------------------------
\* The invariant of the two slopes.  The channel remembers how the last two frames
\* arrived; its level is the one its state and its count stand for; and a count has
\* come as far as the frames that were lost, or good, in a row have taken it.
HeardLast ==
  /\ recent # << >> => info.prevFrameOk[1] = recent[1]
  /\ Len(recent) >= 2 => info.prevFrameOk[0] = recent[2]
Leveled ==
  /\ info.concealState = "Ok" => info.fade_old = Full
  /\ run > 0 => AtStop
CountsUp == info.concealState \in Fades => info.cntFadeFrames >= 0

\* Energy interpolation knows of a frame only with the next one.
Delay == IF method = "Inter" THEN 1 ELSE 0

Fading ==
  Lost(1) =>
    /\ method = "Noise" =>
         \/ info.concealState = "Mute"
         \/ info.concealState \in Fades /\ info.cntFadeFrames >= run - 1
    /\ method = "Inter" =>
         /\ info.concealState # "Single"
         /\ run >= 2 => \/ info.concealState = "Mute"
                        \/ info.concealState = "FadeOut" /\ info.cntFadeFrames >= run - 2
    /\ method = "Mute" => out.spectrum.from = {}
Returning ==
  (Good(1) /\ method # "Mute") =>
    /\ info.concealState # "Single"
    /\ info.concealState \in {"Mute", "FadeOut"} =>
         run <= info.cntValidFrames + Delay /\ info.cntValidFrames <= NumMuteRelease
    /\ info.concealState = "FadeIn" =>
         info.cntFadeFrames + run <= NumFadeIn + NumMuteRelease + 1 + Delay

FadeInv == IInv /\ HeardLast /\ Leveled /\ CountsUp /\ Fading /\ Returning

LEMMA HeardOn ==
  ASSUME recent \in Seq(BOOLEAN), run \in 0..LongRun, NEW ok \in BOOLEAN, Heard(ok)
  PROVE  /\ recent' # << >> /\ recent'[1] = ok
         /\ Len(recent') >= 2 => recent # << >> /\ recent'[2] = recent[1]
         /\ Len(recent') >= 3 => Len(recent) >= 2 /\ recent'[3] = recent[2]
         /\ run' >= 1
         /\ \/ run' = 1
            \/ recent # << >> /\ recent[1] = ok /\ run >= 1 /\ run' <= run + 1
<1> DEFINE t == <<ok>> \o recent
           n == IF Len(recent) < 3 THEN Len(recent) + 1 ELSE 3
<1>1. /\ t \in Seq(BOOLEAN) /\ Len(t) = Len(recent) + 1 /\ Len(recent) \in Nat
      /\ t[1] = ok /\ \A k \in 1..Len(recent) : t[k + 1] = recent[k]
  OBVIOUS
<1>2. n \in 1..3 /\ n <= Len(t) /\ n <= Len(recent) + 1
  BY <1>1
<1>3. recent' = SubSeq(t, 1, n)
  BY DEF Heard
<1> HIDE DEF t, n
<1>4. Len(recent') = n /\ \A k \in 1..n : recent'[k] = t[k]
  BY <1>1, <1>2, <1>3
<1>5. recent' # << >> /\ recent'[1] = ok
  BY <1>1, <1>2, <1>4
<1>6. n >= 2 => recent # << >> /\ recent'[2] = recent[1]
  <2> HAVE n >= 2
  <2>1. 1 \in 1..Len(recent) /\ 2 \in 1..n
    BY <1>1, <1>2
  <2>2. t[1 + 1] = recent[1]
    BY <1>1, <2>1
  <2> QED BY <1>4, <2>1, <2>2
<1>7. n >= 3 => Len(recent) >= 2 /\ recent'[3] = recent[2]
  <2> HAVE n >= 3
  <2>1. 2 \in 1..Len(recent) /\ 3 \in 1..n
    BY <1>1, <1>2
  <2>2. t[2 + 1] = recent[2]
    BY <1>1, <2>1
  <2> QED BY <1>1, <1>2, <1>4, <2>1, <2>2
<1>8. /\ run' >= 1
      /\ \/ run' = 1
         \/ recent # << >> /\ recent[1] = ok /\ run >= 1 /\ run' <= run + 1
  <2>1. LongRun \in Nat \ {0} /\ run \in Int /\ run >= 0
    BY ConcealAssumption
  <2>2. run' = IF recent # << >> /\ recent[1] = ok
               THEN IF run < LongRun THEN run + 1 ELSE run
               ELSE 1
    BY DEF Heard
  <2> QED BY <2>1, <2>2
<1> QED BY <1>4, <1>5, <1>6, <1>7, <1>8

LEMMA InvTypes ==
  ASSUME IInv
  PROVE  /\ info \in Info /\ Bounded(info) /\ info.concealState \in States
         /\ info.cntFadeFrames \in Int /\ info.cntFadeFrames >= -1
         /\ info.cntValidFrames \in Nat
         /\ info.prevFrameOk[0] \in BOOLEAN /\ info.prevFrameOk[1] \in BOOLEAN
         /\ method \in {"Mute", "Noise", "Inter"}
         /\ recent \in Seq(BOOLEAN) /\ run \in 0..LongRun /\ run \in Nat
<1>1. info \in Info /\ Bounded(info) /\ recent \in Seq(BOOLEAN) /\ run \in 0..LongRun
  BY DEF IInv, TypeOK
<1>2. info.cntFadeFrames \in Int /\ info.cntFadeFrames >= -1
  BY <1>1, CountTyped, Constants
<1>3. method \in {"Mute", "Noise", "Inter"}
  BY ConcealAssumption DEF IInv, TypeOK
<1>4. info.concealState \in States /\ info.cntValidFrames \in Nat
  BY <1>1 DEF Info
<1>5. info.prevFrameOk[0] \in BOOLEAN /\ info.prevFrameOk[1] \in BOOLEAN
  BY <1>1 DEF Info
<1>6. run \in Nat
  BY <1>1, ConcealAssumption
<1> QED BY <1>1, <1>2, <1>3, <1>4, <1>5, <1>6

LEMMA EquiFadesOut ==
  ASSUME NEW i, Sound(i), i.concealState = "FadeIn"
  PROVE  EquiFadeOut(i.cntFadeFrames) \in Int /\ EquiFadeOut(i.cntFadeFrames) >= 0
<1>1. i.cntFadeFrames \in FactorIndex
  BY Constants DEF Sound, Bounded, FactorIndex
<1>2. EquiFadeOut(i.cntFadeFrames) \in FactorIndex
  BY <1>1, EquiFadeOutRange
<1> QED BY <1>2, Constants DEF FactorIndex

LEMMA RenderLevels ==
  ASSUME FadeInv, NEW ok \in BOOLEAN, NEW frame \in Frame, Render(ok, frame), IInv'
  PROVE  AtStop' /\ (info'.concealState = "Ok" => info'.fade_old = Full) /\ CountsUp'
<1>1. AtStop' /\ StateSteps(info, info', ok)
  BY RenderSteps DEF FadeInv
<1>2. info'.concealState = "Ok" => info'.fade_old = Full
  BY <1>1 DEF AtStop, FadeStop
<1>3. info.cntFadeFrames \in Int /\ info'.cntFadeFrames \in Int
  <2>1. info.cntFadeFrames \in Int
    BY InvTypes DEF FadeInv
  <2>2. (info.cntFadeFrames \in Int)'
    BY InvTypes, PTL
  <2> QED BY <2>1, <2>2
<1>4. info.concealState = "FadeOut" => info.cntFadeFrames >= 0
  BY DEF FadeInv, CountsUp, Fades
<1>5. CountsUp'
  <2>1. CASE method = "Noise"
    <3>1. IF ok THEN GoodNoise(info, info') ELSE LostNoise(info, info')
      BY <1>1, <2>1 DEF StateSteps
    <3>2. info.concealState \in States
      BY InvTypes DEF FadeInv
    <3>3. CASE ok
      <4>1. GoodNoise(info, info')
        BY <3>1, <3>3
      <4>2. info'.concealState \in Fades =>
              info.concealState = "FadeOut" /\ info'.cntFadeFrames >= info.cntFadeFrames
        BY <3>2, <4>1 DEF GoodNoise, Fades, States
      <4> QED BY <1>3, <1>4, <4>2 DEF CountsUp, Fades
    <3>4. CASE ~ok
      <4>1. LostNoise(info, info')
        BY <3>1, <3>4
      <4> QED BY <4>1 DEF LostNoise, CountsUp, Fades
    <3> QED BY <3>3, <3>4
  <2>2. CASE method = "Inter"
    <3> DEFINE e == Estimable(info, ok)
               h == ok \/ info.prevFrameOk[1]
    <3>1. StepInter(info, info', e, h)
      BY <1>1, <2>2 DEF StateSteps
    <3> HIDE DEF e, h
    <3>2. info.concealState \in States /\ Sound(info)
      BY InvTypes DEF FadeInv, Sound
    <3>3. info.concealState = "FadeIn" => EquiFadeOut(info.cntFadeFrames) >= 0
      BY <3>2, EquiFadesOut
    <3>4. info'.concealState \in Fades =>
            \/ info'.cntFadeFrames = 0
            \/ info.concealState = "FadeOut" /\ info'.cntFadeFrames = info.cntFadeFrames + 1
            \/ /\ info.concealState = "FadeIn"
               /\ info'.cntFadeFrames = EquiFadeOut(info.cntFadeFrames)
      BY <3>1, <3>2 DEF StepInter, Fades, States
    <3> QED BY <1>3, <1>4, <3>3, <3>4 DEF CountsUp, Fades
  <2>3. CASE method = "Mute"
    BY <1>1, <2>3 DEF StateSteps, SameCounts, FadeInv, CountsUp
  <2> QED BY <2>1, <2>2, <2>3, InvTypes DEF FadeInv
<1> QED BY <1>1, <1>2, <1>5

\* A lost frame takes the level further down,
LEMMA LostFades ==
  ASSUME FadeInv, NEW frame \in Frame, Render(FALSE, frame), Heard(FALSE), IInv'
  PROVE  Fading'
<1> SUFFICES ASSUME Lost(1)'
             PROVE  /\ method' = "Noise" =>
                         \/ info'.concealState = "Mute"
                         \/ info'.concealState \in Fades /\ info'.cntFadeFrames >= run' - 1
                    /\ method' = "Inter" =>
                         /\ info'.concealState # "Single"
                         /\ run' >= 2 => \/ info'.concealState = "Mute"
                                         \/ /\ info'.concealState = "FadeOut"
                                            /\ info'.cntFadeFrames >= run' - 2
                    /\ method' = "Mute" => out'.spectrum.from = {}
  BY DEF Fading
<1>1. /\ StateSteps(info, info', FALSE) /\ method' = method
      /\ out'.spectrum.from
           = Shows(Ages(info.spectrum), Parsed(frame).spectrum.from, FALSE, info')
  BY RenderSteps DEF FadeInv
<1>2. IInv /\ HeardLast /\ CountsUp /\ Fading
  BY DEF FadeInv
<1>3. /\ run' >= 1
      /\ \/ run' = 1
         \/ recent # << >> /\ ~recent[1] /\ run >= 1 /\ run' <= run + 1
  <2>1. recent \in Seq(BOOLEAN) /\ run \in 0..LongRun
    BY <1>2, InvTypes
  <2>2. /\ run' >= 1
        /\ \/ run' = 1
           \/ recent # << >> /\ recent[1] = FALSE /\ run >= 1 /\ run' <= run + 1
    BY <2>1, HeardOn
  <2> QED BY <2>2
<1>4. /\ info.cntFadeFrames \in Int /\ info'.cntFadeFrames \in Int
      /\ run \in Nat /\ run' \in Nat /\ info.concealState \in States
      /\ info.prevFrameOk[1] \in BOOLEAN
  <2>1. (info.cntFadeFrames \in Int /\ run \in Nat)'
    BY InvTypes, PTL
  <2> QED BY <1>2, <2>1, InvTypes
<1>5. ASSUME method = "Noise"
      PROVE  \/ info'.concealState = "Mute"
             \/ info'.concealState \in Fades /\ info'.cntFadeFrames >= run' - 1
  <2>1. LostNoise(info, info')
    BY <1>1, <1>5 DEF StateSteps
  <2>2. recent # << >> /\ ~recent[1] /\ run >= 1 =>
          \/ info.concealState = "Mute"
          \/ info.concealState \in Fades /\ info.cntFadeFrames >= run - 1
    BY <1>2, <1>5 DEF Fading, Lost
  <2> QED BY <1>3, <1>4, <2>1, <2>2 DEF LostNoise
<1>6. ASSUME method = "Inter"
      PROVE  /\ info'.concealState # "Single"
             /\ run' >= 2 => \/ info'.concealState = "Mute"
                             \/ /\ info'.concealState = "FadeOut"
                                /\ info'.cntFadeFrames >= run' - 2
  <2> DEFINE e == Estimable(info, FALSE)
             h == FALSE \/ info.prevFrameOk[1]
  <2>1. StepInter(info, info', e, h)
    BY <1>1, <1>6 DEF StateSteps
  <2>2. recent # << >> /\ ~recent[1] => ~e /\ ~h
    BY <1>2, <1>4 DEF HeardLast, Estimable
  <2> HIDE DEF e, h
  <2>3. Sound(info)
    BY <1>2, InvTypes DEF Sound
  <2>4. info.concealState = "FadeIn" =>
          EquiFadeOut(info.cntFadeFrames) \in Int /\ EquiFadeOut(info.cntFadeFrames) >= 0
    BY <2>3, EquiFadesOut
  <2>5. info'.concealState # "Single"
    BY <1>4, <2>1 DEF StepInter, States
  <2>6. recent # << >> /\ ~recent[1] /\ run >= 1 =>
          /\ info.concealState # "Single"
          /\ run >= 2 => \/ info.concealState = "Mute"
                         \/ info.concealState = "FadeOut" /\ info.cntFadeFrames >= run - 2
    BY <1>2, <1>6 DEF Fading, Lost
  <2>7. info.concealState = "FadeOut" => info.cntFadeFrames >= 0
    BY <1>2 DEF CountsUp, Fades
  <2>8. ASSUME run' >= 2
        PROVE  \/ info'.concealState = "Mute"
               \/ info'.concealState = "FadeOut" /\ info'.cntFadeFrames >= run' - 2
    <3>1. ~e /\ ~h /\ run >= 1 /\ run' <= run + 1 /\ recent # << >> /\ ~recent[1]
      BY <1>3, <2>2, <2>8
    <3>2. \/ run' = 2
          \/ /\ run >= 2
             /\ \/ info.concealState = "Mute"
                \/ info.concealState = "FadeOut" /\ info.cntFadeFrames >= run - 2
      BY <1>4, <2>6, <2>8, <3>1
    <3>3. \/ info'.concealState = "Mute"
          \/ /\ info'.concealState = "FadeOut"
             /\ \/ info.concealState = "Ok" /\ info'.cntFadeFrames = 0
                \/ info.concealState = "FadeOut" /\ info'.cntFadeFrames = info.cntFadeFrames + 1
                \/ /\ info.concealState = "FadeIn"
                   /\ info'.cntFadeFrames = EquiFadeOut(info.cntFadeFrames)
      BY <1>4, <2>1, <2>6, <3>1 DEF StepInter, States
    <3> QED BY <1>4, <2>4, <2>7, <3>1, <3>2, <3>3
  <2> QED BY <2>5, <2>8
<1>7. ASSUME method = "Mute" PROVE out'.spectrum.from = {}
  BY <1>1, <1>7 DEF Shows
<1> QED BY <1>1, <1>5, <1>6, <1>7

\* One more good frame and one step of the ramp less: their sum does not grow.
LEMMA RisingSum ==
  ASSUME NEW fade \in Int, NEW fadeNext \in Int, NEW heard \in Nat, NEW heardNext \in Nat,
         NEW fadeIn \in Nat, NEW release \in Nat, NEW delay \in 0..1,
         fadeNext = fade - 1, fadeNext <= fadeIn,
         \/ heardNext = 1
         \/ fade + heard <= fadeIn + release + 1 + delay /\ heardNext <= heard + 1
  PROVE  fadeNext + heardNext <= fadeIn + release + 1 + delay
OBVIOUS

\* and a good one up.
LEMMA GoodReturns ==
  ASSUME FadeInv, NEW frame \in Frame, Render(TRUE, frame), Heard(TRUE), IInv'
  PROVE  Returning'
<1> SUFFICES ASSUME method' # "Mute"
             PROVE  /\ info'.concealState # "Single"
                    /\ info'.concealState \in {"Mute", "FadeOut"} =>
                         /\ run' <= info'.cntValidFrames + Delay'
                         /\ info'.cntValidFrames <= NumMuteRelease
                    /\ info'.concealState = "FadeIn" =>
                         info'.cntFadeFrames + run' <= NumFadeIn + NumMuteRelease + 1 + Delay'
  BY DEF Returning
<1>1. StateSteps(info, info', TRUE) /\ method' = method
  BY RenderSteps DEF FadeInv
<1>2. IInv /\ HeardLast /\ Returning
  BY DEF FadeInv
<1>3. /\ run' >= 1
      /\ \/ run' = 1
         \/ recent # << >> /\ recent[1] /\ run >= 1 /\ run' <= run + 1
  <2>1. recent \in Seq(BOOLEAN) /\ run \in 0..LongRun
    BY <1>2, InvTypes
  <2>2. /\ run' >= 1
        /\ \/ run' = 1
           \/ recent # << >> /\ recent[1] = TRUE /\ run >= 1 /\ run' <= run + 1
    BY <2>1, HeardOn
  <2> QED BY <2>2
<1>4. /\ info.cntFadeFrames \in Int /\ info'.cntFadeFrames \in Int
      /\ info.cntValidFrames \in Nat /\ info'.cntValidFrames \in Nat
      /\ run \in Nat /\ run' \in Nat /\ info.concealState \in States
      /\ info.prevFrameOk[1] \in BOOLEAN /\ info.prevFrameOk[0] \in BOOLEAN
  <2>1. (info.cntFadeFrames \in Int /\ run \in Nat /\ info.cntValidFrames \in Nat)'
    BY InvTypes, PTL
  <2> QED BY <1>2, <2>1, InvTypes
<1>5. /\ info.concealState = "FadeIn" => info.cntFadeFrames <= NumFadeIn
      /\ info'.concealState = "FadeIn" => info'.cntFadeFrames <= NumFadeIn
  <2>1. Bounded(info) /\ Bounded(info)'
    BY <1>2 DEF IInv
  <2> QED BY <1>4, <2>1, Constants DEF Bounded
<1>6. /\ Delay' = Delay /\ Delay \in 0..1
      /\ (method = "Noise" => Delay = 0) /\ (method = "Inter" => Delay = 1)
  BY <1>1 DEF Delay
<1>7. method \in {"Noise", "Inter"}
  BY <1>1, <1>2, InvTypes
<1> DEFINE d == Delay
<1> HIDE DEF d
<1>8. recent # << >> /\ recent[1] /\ run >= 1 =>
        /\ info.concealState # "Single"
        /\ info.concealState \in {"Mute", "FadeOut"} =>
             run <= info.cntValidFrames + d /\ info.cntValidFrames <= NumMuteRelease
        /\ info.concealState = "FadeIn" =>
             info.cntFadeFrames + run <= NumFadeIn + NumMuteRelease + 1 + d
  BY <1>2, <1>7 DEF Returning, Good, d
<1>9. NumFadeIn \in Nat /\ NumMuteRelease \in Nat
  BY Constants
<1>10. d \in 0..1 /\ Delay' = d /\ (method = "Noise" => d = 0) /\ (method = "Inter" => d = 1)
  BY <1>6 DEF d
<1> SUFFICES /\ info'.concealState # "Single"
             /\ info'.concealState \in {"Mute", "FadeOut"} =>
                  run' <= info'.cntValidFrames + d /\ info'.cntValidFrames <= NumMuteRelease
             /\ info'.concealState = "FadeIn" =>
                  info'.cntFadeFrames + run' <= NumFadeIn + NumMuteRelease + 1 + d
  BY <1>10
<1>11. CASE method = "Noise"
  <2>1. GoodNoise(info, info')
    BY <1>1, <1>11 DEF StateSteps
  <2>2. info'.concealState # "Single"
    BY <1>4, <2>1 DEF GoodNoise, States
  <2>3. ASSUME info'.concealState \in {"Mute", "FadeOut"}
        PROVE  run' <= info'.cntValidFrames + d /\ info'.cntValidFrames <= NumMuteRelease
    <3>1. info.concealState \in {"Mute", "FadeOut"}
      BY <1>4, <2>1, <2>3 DEF GoodNoise, States
    <3>2. /\ ~(info.cntValidFrames + 1 > NumMuteRelease)
          /\ info'.cntValidFrames = info.cntValidFrames + 1
      BY <2>1, <2>3, <3>1 DEF GoodNoise
    <3> QED BY <1>3, <1>4, <1>8, <1>9, <1>10, <3>1, <3>2
  <2>4. ASSUME info'.concealState = "FadeIn"
        PROVE  info'.cntFadeFrames + run' <= NumFadeIn + NumMuteRelease + 1 + d
    <3>1. \/ info.concealState = "FadeIn" /\ info'.cntFadeFrames = info.cntFadeFrames - 1
          \/ info.concealState \in {"Mute", "FadeOut"}
      BY <1>4, <2>1, <2>4 DEF GoodNoise, States
    <3>2. CASE info.concealState = "FadeIn"
      <4>1. info'.cntFadeFrames = info.cntFadeFrames - 1
        BY <3>1, <3>2
      <4>2. info'.cntFadeFrames <= NumFadeIn
        BY <1>5, <2>4
      <4>3. \/ run' = 1
            \/ /\ info.cntFadeFrames + run <= NumFadeIn + NumMuteRelease + 1 + d
               /\ run' <= run + 1
        BY <1>3, <1>8, <3>2
      <4> QED BY <1>4, <1>9, <1>10, <4>1, <4>2, <4>3, RisingSum
    <3>3. CASE info.concealState \in {"Mute", "FadeOut"}
      <4>1. run' <= NumMuteRelease + 1 + d
        BY <1>3, <1>4, <1>8, <1>9, <1>10, <3>3
      <4> QED BY <1>4, <1>5, <1>9, <1>10, <2>4, <4>1
    <3> QED BY <3>1, <3>2, <3>3
  <2> QED BY <2>2, <2>3, <2>4
<1>12. CASE method = "Inter"
  <2> DEFINE e == Estimable(info, TRUE)
             h == TRUE \/ info.prevFrameOk[1]
  <2>1. StepInter(info, info', e, h)
    BY <1>1, <1>12 DEF StateSteps
  <2>2. recent # << >> /\ recent[1] => e
    BY <1>2, <1>4 DEF HeardLast, Estimable
  <2>3. h /\ e \in BOOLEAN
    BY <1>4 DEF Estimable
  <2> HIDE DEF e, h
  <2>4. info'.concealState # "Single"
    BY <1>4, <2>1 DEF StepInter, States
  <2>5. ASSUME info'.concealState \in {"Mute", "FadeOut"}
        PROVE  run' <= info'.cntValidFrames + d /\ info'.cntValidFrames <= NumMuteRelease
    <3>0. ~e \/ info.concealState \in {"Mute", "FadeOut"}
      BY <1>4, <2>1, <2>3, <2>5 DEF StepInter, States
    <3>1. \/ info'.cntValidFrames = 0 /\ ~e
          \/ /\ e /\ info.concealState \in {"Mute", "FadeOut"}
             /\ ~(info.cntValidFrames + 1 > NumMuteRelease)
             /\ info'.cntValidFrames = info.cntValidFrames + 1
      <4>1. CASE e
        BY <2>1, <2>5, <3>0, <4>1 DEF StepInter
      <4>2. CASE ~e
        BY <1>4, <2>1, <2>3, <2>5, <4>2 DEF StepInter, States
      <4> QED BY <4>1, <4>2
    <3>2. d = 1
      BY <1>10, <1>12
    <3>3. CASE ~e
      BY <1>3, <1>4, <1>9, <2>2, <3>1, <3>2, <3>3
    <3>4. CASE e
      BY <1>3, <1>4, <1>8, <1>9, <3>1, <3>2, <3>4
    <3> QED BY <3>3, <3>4
  <2>6. ASSUME info'.concealState = "FadeIn"
        PROVE  info'.cntFadeFrames + run' <= NumFadeIn + NumMuteRelease + 1 + d
    <3>1. \/ info.concealState = "FadeIn" /\ info'.cntFadeFrames = info.cntFadeFrames - 1
          \/ info.concealState \in {"Mute", "FadeOut"}
      BY <1>4, <2>1, <2>3, <2>6 DEF StepInter, States
    <3>2. CASE info.concealState = "FadeIn"
      <4>1. info'.cntFadeFrames = info.cntFadeFrames - 1
        BY <3>1, <3>2
      <4>2. info'.cntFadeFrames <= NumFadeIn
        BY <1>5, <2>6
      <4>3. \/ run' = 1
            \/ /\ info.cntFadeFrames + run <= NumFadeIn + NumMuteRelease + 1 + d
               /\ run' <= run + 1
        BY <1>3, <1>8, <3>2
      <4> QED BY <1>4, <1>9, <1>10, <4>1, <4>2, <4>3, RisingSum
    <3>3. CASE info.concealState \in {"Mute", "FadeOut"}
      <4>1. run' <= NumMuteRelease + 1 + d
        BY <1>3, <1>4, <1>8, <1>9, <1>10, <3>3
      <4> QED BY <1>4, <1>5, <1>9, <1>10, <2>6, <4>1
    <3> QED BY <3>1, <3>2, <3>3
  <2> QED BY <2>4, <2>5, <2>6
<1> QED BY <1>7, <1>11, <1>12

LEMMA HeardFrames ==
  ASSUME FadeInv, NEW ok \in BOOLEAN, NEW frame \in Frame, Render(ok, frame), Heard(ok)
  PROVE  HeardLast'
<1>1. info'.prevFrameOk[1] = ok /\ info'.prevFrameOk[0] = info.prevFrameOk[1]
  BY RenderSteps DEF FadeInv
<1>2. recent \in Seq(BOOLEAN) /\ run \in 0..LongRun
  BY InvTypes DEF FadeInv
<1>3. /\ recent' # << >> /\ recent'[1] = ok
      /\ Len(recent') >= 2 => recent # << >> /\ recent'[2] = recent[1]
  BY <1>2, HeardOn
<1> QED BY <1>1, <1>3 DEF HeardLast, FadeInv

LEMMA FrameKeepsFades ==
  ASSUME FadeInv, NEW ok \in BOOLEAN, NEW frame \in Frame, Render(ok, frame), Heard(ok), IInv'
  PROVE  FadeInv'
<1>1. HeardLast' /\ Leveled' /\ CountsUp'
  BY HeardFrames, RenderLevels DEF Leveled
<1>2. recent'[1] = ok
  <2>1. recent \in Seq(BOOLEAN) /\ run \in 0..LongRun
    BY InvTypes DEF FadeInv
  <2> QED BY <2>1, HeardOn
<1>3. Fading'
  <2>1. CASE ok
    BY <1>2, <2>1 DEF Fading, Lost
  <2>2. CASE ~ok
    <3>1. Render(FALSE, frame) /\ Heard(FALSE)
      <4>1. ok = FALSE
        BY <2>2
      <4> QED BY <4>1
    <3> QED BY <3>1, LostFades
  <2> QED BY <2>1, <2>2
<1>4. Returning'
  <2>1. CASE ok
    <3>1. Render(TRUE, frame) /\ Heard(TRUE)
      <4>1. ok = TRUE
        BY <2>1
      <4> QED BY <4>1
    <3> QED BY <3>1, GoodReturns
  <2>2. CASE ~ok
    BY <1>2, <2>2 DEF Returning, Good
  <2> QED BY <2>1, <2>2
<1> QED BY <1>1, <1>3, <1>4 DEF FadeInv

\* After a reset, and after a flush, nothing has been heard.
Unheard == recent = << >> /\ run = 0

LEMMA NothingHeard == Unheard => HeardLast /\ Fading /\ Returning
<1> SUFFICES ASSUME recent = << >>, run = 0
             PROVE  HeardLast /\ Fading /\ Returning
  BY DEF Unheard
<1>1. Len(recent) = 0
  OBVIOUS
<1> QED BY <1>1 DEF HeardLast, Fading, Returning, Lost, Good

LEMMA FadeInit == Init => FadeInv
<1> SUFFICES ASSUME Init PROVE FadeInv
  OBVIOUS
<1>1. HeardLast /\ Fading /\ Returning
  BY NothingHeard DEF Init, Unheard
<1>2. Leveled /\ CountsUp
  BY DEF Init, InitChannelData, Leveled, CountsUp, Fades
<1> QED BY <1>1, <1>2, InitInv DEF FadeInv

LEMMA FadeNext == FadeInv /\ [Next]_vars => FadeInv'
<1> SUFFICES ASSUME FadeInv, [Next]_vars PROVE FadeInv'
  OBVIOUS
<1>1. IInv'
  BY NextInv DEF FadeInv
<1>2. CASE \E frame \in Frame : GoodFrame(frame)
  BY <1>1, <1>2, FrameKeepsFades DEF GoodFrame
<1>3. CASE LostFrame
  BY <1>1, <1>3, FrameKeepsFades, LongIsFrame DEF LostFrame
<1>4. CASE \E frame \in Frame : Flush(frame)
  <2>1. (info'.concealState = "Ok" => info'.fade_old = Full) /\ CountsUp'
    BY <1>1, <1>4, RenderLevels DEF Flush
  <2>2. HeardLast' /\ Fading' /\ Returning'
    <3>1. Unheard'
      BY <1>4 DEF Flush, Forgotten, Unheard
    <3> QED BY <3>1, NothingHeard, PTL
  <2> QED BY <1>1, <1>4, <2>1, <2>2 DEF Flush, Forgotten, FadeInv, Leveled
<1>5. CASE \E m \in Methods : SetMethod(m)
  <2> PICK m \in Methods : SetMethod(m)
    BY <1>5
  <2>1. UNCHANGED <<info, out, recent>> /\ method' = m /\ run' = IF m = method THEN run ELSE 0
    BY DEF SetMethod
  <2>2. HeardLast' /\ CountsUp'
    BY <2>1 DEF FadeInv, HeardLast, CountsUp
  <2>3. CASE m = method
    BY <1>1, <2>1, <2>3
       DEF FadeInv, HeardLast, Leveled, AtStop, FadeStop, FadeOutIndex, LevelAt, CountsUp,
           Fading, Returning, Lost, Good, Delay
  <2>4. CASE m # method
    <3>1. run' = 0
      BY <2>1, <2>4
    <3>2. Leveled' /\ Fading' /\ Returning'
      BY <2>1, <3>1 DEF FadeInv, Leveled, Fading, Returning, Lost, Good
    <3> QED BY <1>1, <2>2, <3>2 DEF FadeInv
  <2> QED BY <2>3, <2>4
<1>6. CASE ClearHistory
  <2>1. HeardLast' /\ Fading' /\ Returning'
    <3>1. Unheard'
      BY <1>6 DEF ClearHistory, Forgotten, Unheard
    <3> QED BY <3>1, NothingHeard, PTL
  <2>2. Leveled' /\ CountsUp'
    BY <1>6 DEF ClearHistory, Forgotten, InitChannelData, Leveled, CountsUp, Fades
  <2> QED BY <1>1, <2>1, <2>2 DEF FadeInv
<1>7. CASE UNCHANGED vars
  BY <1>1, <1>7
     DEF vars, FadeInv, HeardLast, Leveled, AtStop, FadeStop, FadeOutIndex, LevelAt, CountsUp,
         Fading, Returning, Lost, Good, Delay
<1> QED BY <1>2, <1>3, <1>4, <1>5, <1>6, <1>7 DEF Next

\* However a loss begins, in the middle of another fade or after a switch of the method,
\* the channel is silent no later than NumFadeOut + 3 lost frames after.
THEOREM LossesFadeOut == Spec => []FallsSilent
<1>1. FadeInv => FallsSilent
  <2> SUFFICES ASSUME FadeInv, Lost(NumFadeOut + 3)
               PROVE  info.fade_old = 0 \/ out.spectrum.from = {}
    BY DEF FallsSilent
  <2>1. NumFadeOut \in Nat
    BY ConcealAssumption DEF FactorIndex
  <2>2. /\ run \in Nat /\ info.cntFadeFrames \in Int /\ method \in {"Mute", "Noise", "Inter"}
        /\ run >= NumFadeOut + 3
    BY InvTypes DEF FadeInv, Lost
  <2>3. Lost(1) /\ run > 0 /\ AtStop /\ Fading
    BY <2>1, <2>2 DEF Lost, FadeInv, Leveled
  <2>4. CASE method = "Mute"
    BY <2>3, <2>4 DEF Fading
  <2>5. CASE method # "Mute"
    <3>1. \/ info.concealState = "Mute"
          \/ info.concealState \in Fades /\ info.cntFadeFrames >= run - 2
      BY <2>1, <2>2, <2>3, <2>5 DEF Fading, Fades
    <3>2. info.concealState = "Mute" \/ info.cntFadeFrames + 1 > NumFadeOut
      BY <2>1, <2>2, <3>1
    <3>3. FadeStop(info) = 0
      BY <3>1, <3>2 DEF FadeStop, Fades
    <3> QED BY <2>3, <3>3 DEF AtStop
  <2> QED BY <2>4, <2>5
<1> QED BY FadeInit, FadeNext, <1>1, PTL DEF Spec

\* The method that mutes has no state to leave behind, as long as it is not chosen
\* during a loss.
MuteOk == method = "Mute" => info.concealState = "Ok"

LEMMA MuteNext ==
  ASSUME MuteStays PROVE FadeInv /\ MuteOk /\ [Next]_vars => MuteOk'
<1> SUFFICES ASSUME FadeInv, MuteOk, [Next]_vars PROVE MuteOk'
  OBVIOUS
<1>1. ASSUME NEW ok \in BOOLEAN, NEW frame \in Frame, Render(ok, frame)
      PROVE  MuteOk'
  BY <1>1, RenderSteps DEF FadeInv, StateSteps, SameCounts, MuteOk
<1>2. CASE \E frame \in Frame : GoodFrame(frame)
  BY <1>1, <1>2 DEF GoodFrame
<1>3. CASE LostFrame
  BY <1>1, <1>3, LongIsFrame DEF LostFrame
<1>4. CASE \E frame \in Frame : Flush(frame)
  BY <1>1, <1>4 DEF Flush
<1>5. CASE \E m \in Methods : SetMethod(m)
  BY <1>5 DEF SetMethod, MuteStays, MuteOk
<1>6. CASE ClearHistory
  BY <1>6 DEF ClearHistory, InitChannelData, MuteOk
<1>7. CASE UNCHANGED vars
  BY <1>7 DEF vars, MuteOk
<1> QED BY <1>2, <1>3, <1>4, <1>5, <1>6, <1>7 DEF Next

\* However much was lost, and whatever method concealed it, the channel is back to
\* normal, at full level, NumMuteRelease + NumFadeIn + 3 good frames later.
THEOREM GoodFramesRecover == ASSUME MuteStays PROVE Spec => []Recovers
<1>1. FadeInv /\ MuteOk => Recovers
  <2> SUFFICES ASSUME FadeInv, MuteOk, Good(NumMuteRelease + NumFadeIn + 3)
               PROVE  info.concealState = "Ok" /\ info.fade_old = Full
    BY DEF Recovers
  <2>1. NumMuteRelease \in Nat /\ NumFadeIn \in Nat
    BY Constants
  <2>2. /\ run \in Nat /\ info.cntFadeFrames \in Int /\ info.cntValidFrames \in Nat
        /\ info.concealState \in States
        /\ run >= NumMuteRelease + NumFadeIn + 3
    BY InvTypes DEF FadeInv, Good
  <2>3. Good(1) /\ Returning /\ Leveled
    BY <2>1, <2>2 DEF Good, FadeInv
  <2>4. info.concealState = "FadeIn" => info.cntFadeFrames >= 0
    <3>1. Bounded(info)
      BY InvTypes DEF FadeInv
    <3> QED BY <2>1, <3>1 DEF Bounded
  <2>5. Delay \in 0..1
    BY DEF Delay
  <2>6. info.concealState = "Ok"
    <3>1. CASE method = "Mute"
      BY <3>1 DEF MuteOk
    <3>2. CASE method # "Mute"
      <4> DEFINE d == Delay
      <4> HIDE DEF d
      <4>1. /\ info.concealState # "Single"
            /\ info.concealState \in {"Mute", "FadeOut"} =>
                 run <= info.cntValidFrames + d /\ info.cntValidFrames <= NumMuteRelease
            /\ info.concealState = "FadeIn" =>
                 info.cntFadeFrames + run <= NumFadeIn + NumMuteRelease + 1 + d
        BY <2>3, <3>2 DEF Returning, d
      <4>2. d \in 0..1
        BY <2>5 DEF d
      <4> QED BY <2>1, <2>2, <2>4, <4>1, <4>2 DEF States
    <3> QED BY <3>1, <3>2
  <2> QED BY <2>3, <2>6 DEF Leveled
<1>2. Init => MuteOk
  BY DEF Init, InitChannelData, MuteOk
<1> QED BY FadeInit, FadeNext, MuteNext, <1>1, <1>2, PTL DEF Spec
-----------------------------------------------------------------------------
LEMMA LevelsFall ==
  ASSUME SlopesFall, NEW a \in Int, NEW b \in Int, a <= b, b < NumFactors
  PROVE  /\ LevelAt(a) \in 0..Full /\ LevelAt(b) \in 0..Full
         /\ LevelAt(b) <= LevelAt(a)
<1>1. Full \in Nat /\ NumFactors \in Nat
  BY ConcealAssumption
<1>2. \A k \in Int : 0 <= k /\ k < NumFactors => k \in FactorIndex /\ FadeFactor[k] \in 0..Full
  BY ConcealAssumption DEF FactorIndex
<1>3. CASE b < 0
  BY <1>1, <1>3 DEF LevelAt
<1>4. CASE a < 0 /\ ~(b < 0)
  BY <1>1, <1>2, <1>4 DEF LevelAt
<1>5. CASE ~(a < 0) /\ ~(b < 0)
  <2>1. FadeFactor[b] <= FadeFactor[a]
    BY <1>1, <1>2, <1>5 DEF SlopesFall
  <2> QED BY <1>1, <1>2, <1>5, <2>1 DEF LevelAt
<1> QED BY <1>3, <1>4, <1>5

\* The factor findEquiFadeFrame finds for a factor of the table is that one, or one
\* before it that is as large, to the last bit.
LEMMA NearestOfFactor ==
  ASSUME NEW index \in FactorIndex
  PROVE  /\ Reference(index) = FadeFactor[index] \div 2
         /\ NearestFactor(Reference(index)) \in FactorIndex
         /\ NearestFactor(Reference(index)) <= index
         /\ FadeFactor[NearestFactor(Reference(index))] \div 2 = Reference(index)
<1> DEFINE r == Reference(index)
           i == NearestFactor(r)
<1>1. index \in Int /\ index >= 0
  BY ConcealAssumption DEF FactorIndex
<1>2. r = FadeFactor[index] \div 2
  BY <1>1 DEF Reference
<1>3. \A k \in FactorIndex : FadeFactor[k] \div 2 \in Nat
  <2> TAKE k \in FactorIndex
  <2>1. FadeFactor[k] \in Nat
    BY ConcealAssumption
  <2> QED BY <2>1
<1> HIDE DEF r
<1>4. r \in Nat
  BY <1>2, <1>3
<1>5. FactorDistance(index, r) = 0
  BY <1>2, <1>4 DEF FactorDistance, Distance
<1>6. /\ i \in FactorIndex
      /\ \/ FactorDistance(i, r) < FactorDistance(index, r)
         \/ FactorDistance(i, r) = FactorDistance(index, r) /\ i <= index
  BY <1>4, NearestExists
<1> HIDE DEF i
<1>7. FadeFactor[i] \div 2 \in Nat
  BY <1>3, <1>6
<1>8. FactorDistance(i, r) = 0 /\ i <= index
  <2>1. FactorDistance(i, r) \in Nat
    BY <1>4, <1>7 DEF FactorDistance, Distance
  <2> QED BY <1>5, <1>6, <2>1
<1>9. FadeFactor[i] \div 2 = r
  BY <1>4, <1>7, <1>8 DEF FactorDistance, Distance
<1> QED BY <1>2, <1>6, <1>8, <1>9 DEF r, i

LEMMA EquiFadeInUp ==
  ASSUME NEW index \in FactorIndex
  PROVE  EquiFadeIn(index) \in Int /\ EquiFadeIn(index) <= index
<1> DEFINE r == Reference(index)
           n == NearestFactor(r)
           i == IF n <= NumFadeIn THEN n ELSE IF NumFadeIn > 0 THEN NumFadeIn - 1 ELSE 0
<1>1. n \in FactorIndex /\ n <= index
  BY NearestOfFactor
<1>2. EquiFadeIn(index) = IF FadeFactor[i] \div 2 <= r /\ i > 0 THEN i - 1 ELSE i
  BY DEF EquiFadeIn
<1> HIDE DEF r, n
<1>3. /\ index \in Int /\ index >= 0 /\ NumFadeIn \in Nat
      /\ n \in Int /\ n >= 0 /\ n <= index
  BY <1>1, ConcealAssumption DEF FactorIndex
<1>4. i \in Int /\ i <= index
  BY <1>3
<1> HIDE DEF i
<1> QED BY <1>2, <1>3, <1>4

LEMMA EquiFadeOutDown ==
  ASSUME SlopesFall, NEW index \in 0..NumFadeIn
  PROVE  /\ EquiFadeOut(index) \in Int
         /\ EquiFadeOut(index) >= index /\ EquiFadeOut(index) < NumFactors
<1> DEFINE r == Reference(index)
           n == NearestFactor(r)
<1>1. index \in FactorIndex /\ index \in Int /\ NumFactors \in Nat /\ NumFadeIn \in Nat
  BY Constants DEF FactorIndex
<1>2. n \in FactorIndex /\ n <= index /\ FadeFactor[n] \div 2 = FadeFactor[index] \div 2
  BY <1>1, NearestOfFactor
<1>3. EquiFadeOut(index) \in FactorIndex
  BY <1>1, EquiFadeOutRange
<1>4. EquiFadeOut(index) = IF FadeFactor[n] \div 2 >= r /\ n < NumFactors - 1 THEN n + 1 ELSE n
  BY DEF EquiFadeOut
<1> HIDE DEF n, r
<1>5. n \in Int /\ n >= 0
  BY <1>1, <1>2 DEF FactorIndex
<1>6. n = index
  <2>1. FadeFactor[index] \in Nat
    BY <1>1, ConcealAssumption
  <2>2. FadeFactor[index] \div 2 \in Int
    BY <2>1
  <2>3. n < index => FadeFactor[index] \div 2 < FadeFactor[n] \div 2
    BY <1>1, <1>2, <1>5 DEF SlopesFall
  <2> QED BY <1>1, <1>2, <1>5, <2>2, <2>3
<1> QED BY <1>1, <1>3, <1>4, <1>6 DEF FactorIndex

\* The level a fade-out is at.
LEMMA FadeOutLevel ==
  ASSUME NEW i, i.concealState \in Fades
  PROVE  FadeStop(i) = IF i.cntFadeFrames + 1 > NumFadeOut THEN 0 ELSE LevelAt(FadeOutIndex(i))
BY DEF FadeStop, Fades

LEMMA LostFalls ==
  ASSUME SlopesFall, FadeInv, NEW frame \in Frame, Render(FALSE, frame), Lost(1), IInv'
  PROVE  info'.fade_old <= info.fade_old
<1>1. StateSteps(info, info', FALSE) /\ AtStop' /\ method' = method
  BY RenderSteps DEF FadeInv
<1>2. /\ IInv /\ HeardLast /\ CountsUp /\ Fading /\ Leveled /\ run > 0 /\ AtStop
      /\ recent # << >> /\ ~recent[1]
  <2>1. run \in Nat /\ run >= 1
    BY InvTypes DEF FadeInv, Lost
  <2> QED BY <2>1 DEF FadeInv, Lost, Leveled
<1>3. /\ info.cntFadeFrames \in Int /\ info'.cntFadeFrames \in Int
      /\ info.fade_old \in 0..Full /\ info'.fade_old \in 0..Full
      /\ info.concealState \in States /\ Sound(info) /\ run \in Nat
      /\ Bounded(info) /\ Bounded(info')
  <2>1. (info.cntFadeFrames \in Int)'
    BY InvTypes, PTL
  <2>2. info \in Info /\ info' \in Info /\ Bounded(info')
    BY <1>2 DEF IInv, TypeOK
  <2> QED BY <1>2, <2>1, <2>2, InvTypes DEF Info, Sound
<1>4. Full \in Nat /\ NumFadeOut \in Nat /\ NumFactors \in Nat /\ NumFadeOut < NumFactors
  BY Constants, ConcealAssumption
<1>5. info.fade_old = FadeStop(info)
  BY <1>2 DEF AtStop
<1>6. /\ info'.concealState = "Mute" => info'.fade_old = 0
      /\ info'.concealState \in Fades =>
           info'.fade_old = IF info'.cntFadeFrames + 1 > NumFadeOut THEN 0
                            ELSE LevelAt(IF method = "Noise" THEN info'.cntFadeFrames - 1
                                                             ELSE info'.cntFadeFrames)
  BY <1>1 DEF AtStop, FadeStop, FadeOutIndex, Fades
<1>7. info.concealState \in Fades =>
        info.fade_old = IF info.cntFadeFrames + 1 > NumFadeOut THEN 0
                        ELSE LevelAt(IF method = "Noise" THEN info.cntFadeFrames - 1
                                                         ELSE info.cntFadeFrames)
  BY <1>5, FadeOutLevel DEF FadeOutIndex
<1>8. CASE info'.concealState = "Mute"
  BY <1>3, <1>4, <1>6, <1>8
<1>9. CASE method = "Noise" /\ info'.concealState # "Mute"
  <2>1. LostNoise(info, info')
    BY <1>1, <1>9 DEF StateSteps
  <2>2. info.concealState \in Fades
    BY <1>2, <1>9, <2>1 DEF Fading, LostNoise, Fades
  <2>3. info'.concealState \in Fades /\ info'.cntFadeFrames >= info.cntFadeFrames + 1
    BY <1>9, <2>1, <2>2 DEF LostNoise
  <2>4. CASE info'.cntFadeFrames + 1 > NumFadeOut
    BY <1>3, <1>4, <1>6, <2>3, <2>4
  <2>5. CASE ~(info'.cntFadeFrames + 1 > NumFadeOut)
    <3> DEFINE a == info.cntFadeFrames - 1
               b == info'.cntFadeFrames - 1
    <3>1. a \in Int /\ b \in Int /\ a <= b /\ b < NumFactors
      BY <1>3, <1>4, <2>3, <2>5
    <3>2. ~(info.cntFadeFrames + 1 > NumFadeOut)
      BY <1>3, <1>4, <2>3, <2>5
    <3>3. info.fade_old = LevelAt(a) /\ info'.fade_old = LevelAt(b)
      BY <1>6, <1>7, <1>9, <2>2, <2>3, <2>5, <3>2
    <3> HIDE DEF a, b
    <3>4. LevelAt(b) <= LevelAt(a)
      BY <3>1, LevelsFall
    <3> QED BY <3>3, <3>4
  <2> QED BY <2>4, <2>5
<1>10. CASE method = "Inter" /\ info'.concealState # "Mute"
  <2> DEFINE e == Estimable(info, FALSE)
             h == FALSE \/ info.prevFrameOk[1]
  <2>1. StepInter(info, info', e, h)
    BY <1>1, <1>10 DEF StateSteps
  <2>2. ~e /\ ~h
    BY <1>2 DEF HeardLast, Estimable
  <2> HIDE DEF e, h
  <2>3. info.concealState # "Single"
    BY <1>2, <1>10 DEF Fading
  <2>4. /\ info'.concealState = "FadeOut"
        /\ \/ info.concealState = "Ok"
           \/ info.concealState = "FadeOut" /\ info'.cntFadeFrames = info.cntFadeFrames + 1
           \/ /\ info.concealState = "FadeIn"
              /\ info'.cntFadeFrames = EquiFadeOut(info.cntFadeFrames)
    BY <1>3, <1>10, <2>1, <2>2, <2>3 DEF StepInter, States
  <2>5. CASE info.concealState = "Ok"
    BY <1>2, <1>3, <1>4, <2>5 DEF Leveled
  <2>6. CASE info'.cntFadeFrames + 1 > NumFadeOut
    BY <1>3, <1>4, <1>6, <2>4, <2>6 DEF Fades
  <2>7. CASE info.concealState # "Ok" /\ ~(info'.cntFadeFrames + 1 > NumFadeOut)
    <3> DEFINE b == info'.cntFadeFrames
    <3>1. b \in Int /\ b < NumFactors /\ info'.fade_old = LevelAt(b)
      BY <1>3, <1>4, <1>6, <1>10, <2>4, <2>7 DEF Fades
    <3> HIDE DEF b
    <3>2. CASE info.concealState = "FadeOut"
      <4> DEFINE a == info.cntFadeFrames
      <4>1. a \in Int /\ a <= b /\ info.fade_old = LevelAt(a)
        BY <1>3, <1>4, <1>7, <1>10, <2>4, <2>7, <3>2 DEF Fades, b
      <4> HIDE DEF a
      <4>2. LevelAt(b) <= LevelAt(a)
        BY <3>1, <4>1, LevelsFall
      <4> QED BY <3>1, <4>1, <4>2
    <3>3. CASE info.concealState = "FadeIn"
      <4> DEFINE a == info.cntFadeFrames - 1
      <4>1. info.cntFadeFrames \in 0..NumFadeIn
        BY <1>3, <3>3 DEF Bounded
      <4>2. info.fade_old = LevelAt(a)
        BY <1>5, <3>3 DEF FadeStop
      <4>3. b >= info.cntFadeFrames
        BY <2>4, <3>3, <4>1, EquiFadeOutDown DEF b
      <4>4. a \in Int /\ a <= b
        BY <1>3, <3>1, <4>3
      <4> HIDE DEF a
      <4>5. LevelAt(b) <= LevelAt(a)
        BY <3>1, <4>4, LevelsFall
      <4> QED BY <3>1, <4>2, <4>5
    <3> QED BY <2>4, <2>7, <3>2, <3>3
  <2> QED BY <2>5, <2>6, <2>7
<1>11. CASE method = "Mute"
  <2>1. SameCounts(info, info')
    BY <1>1, <1>11 DEF StateSteps
  <2>2. (FadeStop(info))' = FadeStop(info)
    BY <1>1, <2>1 DEF FadeStop, FadeOutIndex, LevelAt, SameCounts
  <2> QED BY <1>1, <1>3, <1>5, <2>2, <1>4 DEF AtStop
<1> QED BY <1>2, <1>8, <1>9, <1>10, <1>11, InvTypes

LEMMA GoodRises ==
  ASSUME SlopesFall, FadeInv, NEW frame \in Frame, Render(TRUE, frame),
         Good(NumMuteRelease + 1), IInv'
  PROVE  info'.fade_old >= info.fade_old
<1>1. StateSteps(info, info', TRUE) /\ AtStop' /\ method' = method
  BY RenderSteps DEF FadeInv
<1>2. NumMuteRelease \in Nat /\ NumFadeIn \in Nat /\ NumFactors \in Nat /\ NumFadeIn < NumFactors
  BY Constants
<1>3. /\ IInv /\ HeardLast /\ CountsUp /\ Returning /\ Leveled
      /\ run > 0 /\ run >= NumMuteRelease + 1 /\ AtStop
      /\ recent # << >> /\ recent[1] /\ Good(1)
  <2>1. run \in Nat /\ run >= NumMuteRelease + 1
    BY InvTypes DEF FadeInv, Good
  <2> QED BY <1>2, <2>1 DEF FadeInv, Good, Leveled
<1>4. /\ info.cntFadeFrames \in Int /\ info'.cntFadeFrames \in Int
      /\ info.cntValidFrames \in Nat
      /\ info.fade_old \in 0..Full /\ info'.fade_old \in 0..Full
      /\ info.concealState \in States /\ info'.concealState \in States /\ run \in Nat
      /\ Bounded(info) /\ Bounded(info')
  <2>1. (info.cntFadeFrames \in Int)'
    BY InvTypes, PTL
  <2>2. info \in Info /\ info' \in Info /\ Bounded(info')
    BY <1>3 DEF IInv, TypeOK
  <2> QED BY <1>3, <2>1, <2>2, InvTypes DEF Info
<1>5. Full \in Nat
  BY ConcealAssumption
<1>6. info.fade_old = FadeStop(info)
  BY <1>3 DEF AtStop
<1>7. /\ info'.concealState = "Ok" => info'.fade_old = Full
      /\ info'.concealState = "FadeIn" => info'.fade_old = LevelAt(info'.cntFadeFrames - 1)
  BY <1>1 DEF AtStop, FadeStop
<1>8. CASE info'.concealState = "Ok"
  BY <1>4, <1>5, <1>7, <1>8
<1>9. ASSUME info.concealState = "FadeIn", info'.concealState = "FadeIn",
             info'.cntFadeFrames = info.cntFadeFrames - 1
      PROVE  info'.fade_old >= info.fade_old
  <2> DEFINE a == info'.cntFadeFrames - 1
             b == info.cntFadeFrames - 1
  <2>1. a \in Int /\ b \in Int /\ a <= b /\ b < NumFactors
    BY <1>2, <1>4, <1>9 DEF Bounded
  <2>2. info.fade_old = LevelAt(b) /\ info'.fade_old = LevelAt(a)
    BY <1>6, <1>7, <1>9 DEF FadeStop
  <2> HIDE DEF a, b
  <2>3. LevelAt(b) <= LevelAt(a) /\ LevelAt(a) \in 0..Full /\ LevelAt(b) \in 0..Full
    BY <2>1, LevelsFall
  <2> QED BY <2>2, <2>3, <1>5
<1>10. CASE method = "Noise"
  <2>1. GoodNoise(info, info')
    BY <1>1, <1>10 DEF StateSteps
  <2>2. info.concealState \in {"Ok", "FadeIn"}
    <3>1. /\ info.concealState # "Single"
          /\ info.concealState \in {"Mute", "FadeOut"} =>
               run <= info.cntValidFrames + 0 /\ info.cntValidFrames <= NumMuteRelease
      BY <1>3, <1>10 DEF Returning, Delay
    <3> QED BY <1>2, <1>3, <1>4, <3>1 DEF States
  <2>3. \/ info'.concealState = "Ok"
        \/ /\ info.concealState = "FadeIn" /\ info'.concealState = "FadeIn"
           /\ info'.cntFadeFrames = info.cntFadeFrames - 1
    BY <2>1, <2>2 DEF GoodNoise
  <2> QED BY <1>8, <1>9, <2>3
<1>11. CASE method = "Inter"
  <2> DEFINE e == Estimable(info, TRUE)
             h == TRUE \/ info.prevFrameOk[1]
  <2>1. StepInter(info, info', e, h)
    BY <1>1, <1>11 DEF StateSteps
  <2>2. e /\ h
    BY <1>3 DEF HeardLast, Estimable
  <2> HIDE DEF e, h
  <2>3. /\ info.concealState # "Single"
        /\ info.concealState \in {"Mute", "FadeOut"} =>
             info.cntValidFrames + 1 > NumMuteRelease
    <3>1. /\ info.concealState # "Single"
          /\ info.concealState \in {"Mute", "FadeOut"} => run <= info.cntValidFrames + 1
      BY <1>3, <1>11 DEF Returning, Delay
    <3> QED BY <1>2, <1>3, <1>4, <3>1
  <2>4. CASE info.concealState \in {"Ok", "FadeIn"}
    <3>1. \/ info'.concealState = "Ok"
          \/ /\ info.concealState = "FadeIn" /\ info'.concealState = "FadeIn"
             /\ info'.cntFadeFrames = info.cntFadeFrames - 1
      BY <2>1, <2>2, <2>4 DEF StepInter
    <3> QED BY <1>8, <1>9, <3>1
  <2>5. CASE info.concealState = "Mute"
    <3>1. info.fade_old = 0
      BY <1>6, <2>5 DEF FadeStop
    <3> QED BY <1>4, <1>5, <3>1
  <2>6. CASE info.concealState = "FadeOut"
    <3> DEFINE b == info.cntFadeFrames
               c == EquiFadeIn(info.cntFadeFrames)
               a == EquiFadeIn(info.cntFadeFrames) - 1
    <3>1. \/ info'.concealState = "Ok"
          \/ info'.concealState = "FadeIn" /\ info'.cntFadeFrames = c
      BY <2>1, <2>2, <2>3, <2>6 DEF StepInter
    <3>2. b \in Int /\ b >= 0 /\ b < NumFactors /\ b \in FactorIndex
      BY <1>2, <1>3, <1>4, <2>6 DEF CountsUp, Fades, Bounded, FactorIndex
    <3>3. c \in Int /\ c <= b
      BY <3>2, EquiFadeInUp
    <3>4. info.fade_old = IF b + 1 > NumFadeOut THEN 0 ELSE LevelAt(b)
      BY <1>6, <1>11, <2>6 DEF FadeStop, FadeOutIndex
    <3>5. info'.concealState = "FadeIn" => info'.fade_old = LevelAt(c - 1)
      BY <1>7, <3>1
    <3> HIDE DEF b, c
    <3>6. LevelAt(b) <= LevelAt(c - 1) /\ LevelAt(c - 1) \in 0..Full /\ LevelAt(b) \in 0..Full
      <4>1. c - 1 \in Int /\ c - 1 <= b
        BY <3>2, <3>3
      <4> QED BY <3>2, <4>1, LevelsFall
    <3>7. CASE info'.concealState = "FadeIn"
      BY <1>5, <3>4, <3>5, <3>6, <3>7
    <3> QED BY <1>8, <3>1, <3>7
  <2> QED BY <1>4, <2>3, <2>4, <2>5, <2>6 DEF States
<1>12. CASE method = "Mute"
  <2>1. SameCounts(info, info')
    BY <1>1, <1>12 DEF StateSteps
  <2>2. (FadeStop(info))' = FadeStop(info)
    BY <1>1, <2>1 DEF FadeStop, FadeOutIndex, LevelAt, SameCounts
  <2> QED BY <1>1, <1>4, <1>6, <2>2, <1>5 DEF AtStop
<1> QED BY <1>3, <1>10, <1>11, <1>12, InvTypes

\* Along a table that falls, and that falls by more than its last bit as far as the
\* fade-in reaches, findEquiFadeFrame always continues at a level on the right side
\* of the one the other slope stopped at.
THEOREM SlopesDoNotTurn == ASSUME SlopesFall PROVE Spec => SlopesKeepDirection
<1>1. FadeInv /\ FadeInv' /\ [Next]_vars =>
        [/\ (recent' # << >> /\ Lost(1) /\ ~recent'[1]) => info'.fade_old <= info.fade_old
         /\ (recent' # << >> /\ Good(NumMuteRelease + 1) /\ recent'[1])
              => info'.fade_old >= info.fade_old]_vars
  <2> SUFFICES ASSUME FadeInv, FadeInv', Next, recent' # << >>
               PROVE  /\ Lost(1) /\ ~recent'[1] => info'.fade_old <= info.fade_old
                      /\ Good(NumMuteRelease + 1) /\ recent'[1]
                           => info'.fade_old >= info.fade_old
    BY DEF vars
  <2>1. IInv' /\ recent \in Seq(BOOLEAN) /\ run \in 0..LongRun
    BY InvTypes DEF FadeInv
  <2>2. CASE \E frame \in Frame : GoodFrame(frame)
    <3> PICK frame \in Frame : GoodFrame(frame)
      BY <2>2
    <3>1. Render(TRUE, frame) /\ Heard(TRUE)
      BY DEF GoodFrame
    <3>2. recent'[1] = TRUE
      BY <2>1, <3>1, HeardOn
    <3> QED BY <2>1, <3>1, <3>2, GoodRises
  <2>3. CASE LostFrame
    <3>1. Render(FALSE, LongFrame) /\ Heard(FALSE)
      BY <2>3 DEF LostFrame
    <3>2. recent'[1] = FALSE
      BY <2>1, <3>1, HeardOn
    <3> QED BY <2>1, <3>1, <3>2, LongIsFrame, LostFalls
  <2>4. CASE \E frame \in Frame : Flush(frame)
    BY <2>4 DEF Flush, Forgotten
  <2>5. CASE \E m \in Methods : SetMethod(m)
    <3>1. info'.fade_old = info.fade_old
      BY <2>5 DEF SetMethod
    <3>2. info.fade_old \in 0..Full /\ Full \in Nat
      BY ConcealAssumption DEF FadeInv, IInv, TypeOK, Info
    <3> QED BY <3>1, <3>2
  <2>6. CASE ClearHistory
    BY <2>6 DEF ClearHistory, Forgotten
  <2> QED BY <2>2, <2>3, <2>4, <2>5, <2>6 DEF Next
<1> QED BY FadeInit, FadeNext, <1>1, PTL DEF Spec, SlopesKeepDirection
-----------------------------------------------------------------------------
\* The ages of a spectrum, one frame later.
LEMMA AgesOf ==
  ASSUME NEW s \in Spectrum
  PROVE  Ages(s) = {IF a < Oldest THEN a + 1 ELSE a : a \in s.from}
BY DEF Ages, Older, Spectrum

LEMMA ParsedFrom ==
  ASSUME NEW frame
  PROVE  Parsed(frame).spectrum.from = IF frame.cleared THEN {} ELSE {0}
BY DEF Parsed

\* The buffer is never behind the output: whatever is rendered, the buffer holds a frame
\* at least as new, unless it is empty.
Buffered ==
  info.spectrum.from # {} => \A a \in out.spectrum.from : \E c \in info.spectrum.from : c <= a
Onward(s, t) == t # {} => \A a \in s : \E c \in t : c <= a + 1

LEMMA SpectraTyped ==
  ASSUME IInv
  PROVE  /\ info.spectrum \in Spectrum /\ info.spectrum.from \in SUBSET (0..Oldest)
         /\ out.spectrum.from \in SUBSET (0..Oldest) /\ Oldest \in Nat
BY ConcealAssumption DEF IInv, TypeOK, Info, Spectrum

LEMMA FrameKeepsOrder ==
  ASSUME FadeInv, MuteOk, Buffered, NEW ok \in BOOLEAN, NEW frame \in Frame,
         Render(ok, frame), IInv'
  PROVE  Buffered' /\ Onward(out.spectrum.from, out'.spectrum.from)
<1> DEFINE old == Ages(info.spectrum)
           new == Parsed(frame).spectrum.from
           release == MuteReleaseActive(ok)
           s == info'.spectrum.from
           t == out'.spectrum.from
<1>1. StateSteps(info, info', ok) /\ s = Buffers(old, new, ok, info') /\ t = Shows(old, new, ok, info')
  BY RenderSteps DEF FadeInv
<1>2. new \in {{}, {0}}
  BY ParsedFrom
<1>3. IInv /\ info.concealState \in States /\ info'.concealState \in States
  <2>1. (info.concealState \in States)'
    BY InvTypes, PTL
  <2> QED BY <2>1, InvTypes DEF FadeInv
<1>4. method \in {"Noise", "Inter", "Mute"}
  BY InvTypes DEF FadeInv
<1>5. old = {IF a < Oldest THEN a + 1 ELSE a : a \in info.spectrum.from}
  BY <1>3, SpectraTyped, AgesOf
<1>6. release <=> /\ ok /\ info.concealState \in {"Mute", "FadeOut"}
                  /\ info.cntValidFrames + 1 <= NumMuteRelease
  BY DEF MuteReleaseActive
<1>7. s = {} \/ s = t \/ t = {} \/ (s = new /\ t \subseteq old \cup new)
  <2>1. CASE method = "Noise"
    <3>1. CASE info'.concealState = "Mute" \/ info'.concealState \in Fades
      BY <1>1, <2>1, <3>1 DEF Buffers, Shows
    <3>2. CASE ~(info'.concealState = "Mute" \/ info'.concealState \in Fades)
      <4>1. IF ok THEN GoodNoise(info, info') ELSE LostNoise(info, info')
        BY <1>1, <2>1 DEF StateSteps
      <4>2. ok
        BY <3>2, <4>1 DEF LostNoise
      <4>3. ~release
        <5>1. GoodNoise(info, info')
          BY <4>1, <4>2
        <5>2. info.concealState \in {"Mute", "FadeOut"} => info.cntValidFrames + 1 > NumMuteRelease
          BY <3>2, <5>1 DEF GoodNoise, Fades
        <5>3. info.cntValidFrames \in Nat /\ NumMuteRelease \in Nat
          BY <1>3, InvTypes, Constants
        <5> QED BY <1>6, <5>2, <5>3
      <4> QED BY <1>1, <2>1, <3>2, <4>2, <4>3 DEF Buffers, Shows, Stored
    <3> QED BY <3>1, <3>2
  <2>2. CASE method = "Inter"
    BY <1>1, <2>2 DEF Buffers, Shows, Stored
  <2>3. CASE method = "Mute"
    <3>1. ~release
      BY <1>6, <2>3 DEF MuteOk
    <3> QED BY <1>1, <2>3, <3>1 DEF Buffers, Shows, Stored
  <2> QED BY <1>4, <2>1, <2>2, <2>3
<1>8. t = {} \/ t = new \/ t = old \/ t = old \cup new
  <2>1. CASE method = "Noise"
    BY <1>1, <2>1 DEF Shows, Stored
  <2>2. CASE method = "Inter"
    BY <1>1, <2>2 DEF Shows
  <2>3. CASE method = "Mute"
    BY <1>1, <2>3 DEF Shows
  <2> QED BY <1>4, <2>1, <2>2, <2>3
<1> HIDE DEF old, new, release
<1>9. /\ info.spectrum.from \in SUBSET (0..Oldest) /\ out.spectrum.from \in SUBSET (0..Oldest)
      /\ Oldest \in Nat
  BY <1>3, SpectraTyped
<1>10. s \in SUBSET (0..Oldest) /\ t \in SUBSET (0..Oldest)
  BY SpectraTyped, ConcealAssumption DEF IInv, TypeOK, Info, Spectrum
<1>11. Buffered'
  <2> SUFFICES ASSUME s # {}, NEW a \in t PROVE \E c \in s : c <= a
    BY DEF Buffered
  <2>1. a \in Nat
    BY <1>9, <1>10
  <2>2. CASE s = t
    BY <2>1, <2>2
  <2>3. CASE s = new
    BY <1>2, <2>1, <2>3
  <2> QED BY <1>7, <2>2, <2>3
<1>12. Onward(out.spectrum.from, t)
  <2> SUFFICES ASSUME t # {}, NEW a \in out.spectrum.from PROVE \E c \in t : c <= a + 1
    BY DEF Onward
  <2>1. a \in Nat
    BY <1>9
  <2>2. CASE t = new
    BY <1>2, <2>1, <2>2
  <2>3. CASE t = old \/ t = old \cup new
    <3>1. CASE info.spectrum.from = {}
      <4>1. old = {}
        BY <1>5, <3>1
      <4> QED BY <2>2, <2>3, <4>1
    <3>2. CASE info.spectrum.from # {}
      <4>1. PICK c \in info.spectrum.from : c <= a
        BY <3>2 DEF Buffered
      <4> DEFINE d == IF c < Oldest THEN c + 1 ELSE c
      <4>2. d \in old
        BY <1>5
      <4>3. c \in Nat
        BY <1>9
      <4>4. d <= a + 1
        BY <1>9, <2>1, <4>1, <4>3
      <4> QED BY <2>3, <4>2, <4>4
    <3> QED BY <3>1, <3>2
  <2> QED BY <1>8, <2>2, <2>3
<1> QED BY <1>11, <1>12

OrderInv == FadeInv /\ MuteOk /\ Buffered

LEMMA OrderNext ==
  ASSUME MuteStays
  PROVE  OrderInv /\ [Next]_vars =>
           OrderInv' /\ (recent' # << >> => Onward(out.spectrum.from, out'.spectrum.from))
<1> SUFFICES ASSUME OrderInv, [Next]_vars
             PROVE  /\ OrderInv'
                    /\ recent' # << >> => Onward(out.spectrum.from, out'.spectrum.from)
  OBVIOUS
<1>1. FadeInv' /\ MuteOk' /\ IInv' /\ FadeInv /\ MuteOk /\ Buffered
  BY FadeNext, MuteNext, NextInv DEF OrderInv, FadeInv
<1> SUFFICES /\ Buffered'
             /\ recent' # << >> => Onward(out.spectrum.from, out'.spectrum.from)
  BY <1>1 DEF OrderInv
<1>2. CASE \E frame \in Frame : GoodFrame(frame)
  BY <1>1, <1>2, FrameKeepsOrder DEF GoodFrame
<1>3. CASE LostFrame
  BY <1>1, <1>3, FrameKeepsOrder, LongIsFrame DEF LostFrame
<1>4. CASE \E frame \in Frame : Flush(frame)
  BY <1>1, <1>4, FrameKeepsOrder DEF Flush
<1>5. CASE UNCHANGED <<info, out>>
  <2>1. Buffered'
    BY <1>1, <1>5 DEF Buffered
  <2>2. Onward(out.spectrum.from, out.spectrum.from)
    <3>1. \A a \in out.spectrum.from : a \in Int
      BY <1>1, SpectraTyped DEF FadeInv
    <3> QED BY <3>1 DEF Onward
  <2> QED BY <1>5, <2>1, <2>2
<1>6. CASE ClearHistory
  BY <1>6 DEF ClearHistory, Forgotten, InitChannelData, Silence, Buffered
<1> QED BY <1>2, <1>3, <1>4, <1>5, <1>6 DEF Next, SetMethod, vars

LEMMA NewestOf ==
  ASSUME NEW s, s.from \in SUBSET Nat, s.from # {}
  PROVE  Newest(s) \in s.from /\ \A b \in s.from : Newest(s) <= b
<1>1. \E a \in s.from : \A b \in s.from : a <= b
  BY LeastNatural
<1> QED BY <1>1, Zenon DEF Newest

\* The output never goes back in the stream, whichever of the methods conceal it and
\* however often they are changed.
THEOREM OutputGoesOn == ASSUME MuteStays PROVE Spec => NeverReplays
<1>1. OrderInv /\ OrderInv' /\ [Next]_vars =>
        [(out.spectrum.from # {} /\ out'.spectrum.from # {} /\ recent' # << >>)
           => Newest(out'.spectrum) <= Newest(out.spectrum) + 1]_vars
  <2> SUFFICES ASSUME OrderInv, OrderInv', [Next]_vars,
                      out.spectrum.from # {}, out'.spectrum.from # {}, recent' # << >>
               PROVE  Newest(out'.spectrum) <= Newest(out.spectrum) + 1
    OBVIOUS
  <2>1. Onward(out.spectrum.from, out'.spectrum.from)
    BY OrderNext
  <2>2. /\ out.spectrum.from \in SUBSET Nat /\ out'.spectrum.from \in SUBSET Nat
    <3>1. IInv /\ IInv'
      BY DEF OrderInv, FadeInv
    <3>2. out.spectrum.from \in SUBSET (0..Oldest) /\ out'.spectrum.from \in SUBSET (0..Oldest)
      BY <3>1 DEF IInv, TypeOK, Spectrum
    <3> QED BY <3>2, ConcealAssumption
  <2> DEFINE a == Newest(out.spectrum)
             b == Newest(out'.spectrum)
  <2>3. a \in out.spectrum.from
    BY <2>2, NewestOf
  <2>4. b \in out'.spectrum.from /\ \A c \in out'.spectrum.from : b <= c
    BY <2>2, NewestOf
  <2> HIDE DEF a, b
  <2>5. PICK c \in out'.spectrum.from : c <= a + 1
    BY <2>1, <2>3 DEF Onward
  <2>6. a \in Nat /\ b \in Nat /\ c \in Nat /\ b <= c
    BY <2>2, <2>3, <2>4
  <2> QED BY <2>5, <2>6 DEF a, b
<1>2. Init => OrderInv
  <2>1. Init => FadeInv
    BY FadeInit
  <2> QED BY <2>1 DEF Init, InitChannelData, Silence, MuteOk, Buffered, OrderInv
<1>3. OrderInv /\ [Next]_vars => OrderInv'
  BY OrderNext
<1> QED BY <1>1, <1>2, <1>3, PTL DEF Spec, NeverReplays
-----------------------------------------------------------------------------
\* The buffer of energy interpolation after the last one or two frames: the good one, or
\* what was there before it, one frame older.
Behind ==
  (method = "Inter" /\ ~switched /\ recent # << >>) =>
    LET buffer == info.spectrum.from
    IN  /\ recent[1] => buffer = {0}
        /\ ~recent[1] => 0 \notin buffer
        /\ Len(recent) >= 2 /\ ~recent[1] => IF recent[2] THEN buffer = {1} ELSE 1 \notin buffer

LEMMA FrameDelays ==
  ASSUME ReleasesAtOnce, FadeInv, Behind, method = "Inter", ~switched,
         NEW ok \in BOOLEAN, NEW frame \in Frame, ok => ~frame.cleared,
         Render(ok, frame), Heard(ok)
  PROVE  Behind' /\ DelaysOneFrame'
<1> DEFINE old == Ages(info.spectrum)
           new == Parsed(frame).spectrum.from
           before == info.spectrum.from
           s == info'.spectrum.from
           t == out'.spectrum.from
<1>1. /\ s = Buffers(old, new, ok, info') /\ t = Shows(old, new, ok, info')
  BY RenderSteps DEF FadeInv
<1>2. IInv /\ HeardLast /\ recent \in Seq(BOOLEAN) /\ run \in 0..LongRun
  BY InvTypes DEF FadeInv
<1>3. ~MuteReleaseActive(ok)
  <2>1. info.cntValidFrames \in Nat
    BY <1>2, InvTypes
  <2> QED BY <2>1 DEF MuteReleaseActive, ReleasesAtOnce
<1>4. old = {IF a < Oldest THEN a + 1 ELSE a : a \in before} /\ before \in SUBSET (0..Oldest)
  BY <1>2, SpectraTyped, AgesOf
<1>5. ok => new = {0}
  BY ParsedFrom
<1>6. s = (IF ok THEN new ELSE old)
  BY <1>1, <1>3 DEF Buffers, Stored
<1>7. info'.concealState # "Mute" =>
        t = IF ok /\ ~info.prevFrameOk[1] /\ info.prevFrameOk[0] THEN old \cup new ELSE old
  BY <1>1, <1>3 DEF Shows
<1>8. /\ recent' # << >> /\ recent'[1] = ok
      /\ Len(recent') >= 2 => recent # << >> /\ recent'[2] = recent[1]
      /\ Len(recent') >= 3 => Len(recent) >= 2 /\ recent'[3] = recent[2]
  BY <1>2, HeardOn
<1>9. /\ recent # << >> => info.prevFrameOk[1] = recent[1]
      /\ Len(recent) >= 2 => info.prevFrameOk[0] = recent[2]
  BY <1>2 DEF HeardLast
<1>10. recent # << >> =>
         /\ recent[1] => before = {0}
         /\ ~recent[1] => 0 \notin before
         /\ Len(recent) >= 2 /\ ~recent[1] => IF recent[2] THEN before = {1} ELSE 1 \notin before
  BY DEF Behind
<1> HIDE DEF old, new, before, s, t
<1>11. Oldest \in Nat /\ Oldest >= 2
  BY ConcealAssumption DEF ReleasesAtOnce
<1>12. 0 \notin old
  BY <1>4, <1>11
<1>13. before = {0} => old = {1}
  BY <1>4, <1>11
<1>14. before = {1} => old = {2}
  BY <1>4, <1>11
<1>15. 0 \notin before => 1 \notin old
  BY <1>4, <1>11
<1>16. method' = method
  BY DEF Render
<1>17. Behind'
  <2> SUFFICES /\ recent'[1] => s = {0}
               /\ ~recent'[1] => 0 \notin s
               /\ Len(recent') >= 2 /\ ~recent'[1] =>
                    IF recent'[2] THEN s = {1} ELSE 1 \notin s
    BY DEF Behind, s
  <2>1. CASE ok
    BY <1>5, <1>6, <1>8, <2>1
  <2>2. CASE ~ok
    <3>1. s = old /\ ~recent'[1]
      BY <1>6, <1>8, <2>2
    <3>2. Len(recent') >= 2 => IF recent'[2] THEN s = {1} ELSE 1 \notin s
      BY <1>8, <1>10, <1>13, <1>15, <3>1
    <3> QED BY <1>12, <3>1, <3>2
  <2> QED BY <2>1, <2>2
<1>18. DelaysOneFrame'
  <2> SUFFICES ASSUME Len(recent') = 3, info'.concealState # "Mute"
               PROVE  IF recent'[2] THEN t = {1}
                      ELSE IF recent'[1] /\ recent'[3] THEN t = {0, 2}
                      ELSE 0 \notin t /\ 1 \notin t
    BY DEF DelaysOneFrame, t
  <2>1. /\ recent # << >> /\ Len(recent) >= 2
        /\ recent'[1] = ok /\ recent'[2] = recent[1] /\ recent'[3] = recent[2]
        /\ info.prevFrameOk[1] = recent[1] /\ info.prevFrameOk[0] = recent[2]
    BY <1>8, <1>9
  <2>2. t = IF ok /\ ~recent[1] /\ recent[2] THEN old \cup new ELSE old
    BY <1>7, <2>1
  <2>3. CASE recent[1]
    BY <1>10, <1>13, <2>1, <2>2, <2>3
  <2>4. CASE ~recent[1] /\ ok /\ recent[2]
    <3>1. old = {2} /\ new = {0}
      BY <1>5, <1>10, <1>14, <2>1, <2>4
    <3>2. t = {0, 2}
      BY <2>2, <2>4, <3>1
    <3> QED BY <2>1, <2>4, <3>2
  <2>5. CASE ~recent[1] /\ ~(ok /\ recent[2])
    <3>1. t = old /\ 0 \notin old /\ 1 \notin old
      BY <1>10, <1>12, <1>15, <2>1, <2>2, <2>5
    <3> QED BY <2>1, <2>5, <3>1
  <2> QED BY <2>3, <2>4, <2>5
<1> QED BY <1>17, <1>18

DelayInv == FadeInv /\ Behind /\ DelaysOneFrame

LEMMA UnheardDelays == Unheard => Behind /\ DelaysOneFrame
<1> SUFFICES ASSUME recent = << >> PROVE Behind /\ DelaysOneFrame
  BY DEF Unheard
<1>1. Len(recent) = 0
  OBVIOUS
<1> QED BY <1>1 DEF Behind, DelaysOneFrame

LEMMA DelayNext == ASSUME ReleasesAtOnce PROVE DelayInv /\ [Next]_vars => DelayInv'
<1> SUFFICES ASSUME DelayInv, [Next]_vars PROVE DelayInv'
  OBVIOUS
<1>1. FadeInv' /\ FadeInv /\ Behind /\ DelaysOneFrame
  BY FadeNext DEF DelayInv
<1>2. ASSUME NEW ok \in BOOLEAN, NEW frame \in Frame, ok => ~frame.cleared,
             Render(ok, frame), Heard(ok), switched' = switched
      PROVE  Behind' /\ DelaysOneFrame'
  <2>1. method' = method
    BY <1>2 DEF Render
  <2>2. CASE method = "Inter" /\ ~switched
    BY <1>1, <1>2, <2>2, FrameDelays
  <2>3. CASE ~(method = "Inter" /\ ~switched)
    BY <1>2, <2>1, <2>3 DEF Behind, DelaysOneFrame
  <2> QED BY <2>2, <2>3
<1>3. CASE \E frame \in Frame : GoodFrame(frame)
  BY <1>1, <1>2, <1>3 DEF GoodFrame, DelayInv
<1>4. CASE LostFrame
  <2>1. Render(FALSE, LongFrame) /\ Heard(FALSE) /\ switched' = switched
    BY <1>4 DEF LostFrame
  <2> QED BY <1>1, <1>2, <2>1, LongIsFrame DEF DelayInv
<1>5. CASE (\E frame \in Frame : Flush(frame)) \/ ClearHistory
  <2>1. Unheard'
    BY <1>5 DEF Flush, ClearHistory, Forgotten, Unheard
  <2>2. Behind' /\ DelaysOneFrame'
    BY <2>1, UnheardDelays, PTL
  <2> QED BY <1>1, <2>2 DEF DelayInv
<1>6. CASE \E m \in Methods : SetMethod(m)
  BY <1>1, <1>6 DEF SetMethod, DelayInv, Behind, DelaysOneFrame
<1>7. CASE UNCHANGED vars
  BY <1>1, <1>7 DEF vars, DelayInv, Behind, DelaysOneFrame
<1> QED BY <1>3, <1>4, <1>5, <1>6, <1>7 DEF Next

\* As long as the method is energy interpolation, every good frame comes out one frame
\* later and unchanged, and a single lost one is the mean of its neighbours.
THEOREM InterpolationDelays == ASSUME ReleasesAtOnce PROVE Spec => []DelaysOneFrame
<1>1. Init => DelayInv
  <2>1. Init => FadeInv /\ Unheard
    BY FadeInit DEF Init, Unheard
  <2> QED BY <2>1, UnheardDelays DEF DelayInv
<1>2. DelayInv => DelaysOneFrame
  BY DEF DelayInv
<1> QED BY <1>1, <1>2, DelayNext, PTL DEF Spec
=============================================================================
