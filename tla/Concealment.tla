---------------------------- MODULE Concealment ----------------------------
(***************************************************************************)
(* The error concealment of one channel of the AAC decoder                 *)
(* (libAACdec/src/conceal.cpp): what CConcealment_Apply and then           *)
(* CConcealment_TDFading do to every frame, good or lost, that the channel *)
(* renders with the IMDCT.  A spectrum is told by how many frames ago it   *)
(* was parsed and by whether it was parsed as eight short blocks; a window *)
(* sequence, a fade level and the counters are the code's own.  ACELP/TCX  *)
(* (AACDEC_RENDER_LPD) frames are not modelled.                            *)
(***************************************************************************)
EXTENDS Integers, Sequences

CONSTANTS
  Methods,      \* the concealment methods the application chooses from
  Switchable,   \* those it changes between while it decodes
  NumFadeOut,   \* numFadeOutFrames
  NumFadeIn,    \* numFadeInFrames
  NumMuteRelease, \* numMuteReleaseFrames
  NumFactors,   \* CONCEAL_MAX_NUM_FADE_FACTORS, 32
  FadeFactor,   \* fadeOutFactor and fadeInFactor, the same table
  NumShort,     \* short blocks in a frame, 8
  LastGroups,   \* lengths a frame's last window group may have
  Full,         \* MAXVAL_DBL, no attenuation
  Oldest,       \* bound: frames older than this are not told apart
  LongRun       \* bound: longer runs of good or of lost frames are not told apart

FactorIndex == 0..(NumFactors - 1)

ASSUME ConcealAssumption ==
  /\ Methods # {} /\ Methods \subseteq {"Mute", "Noise", "Inter"} /\ Switchable \subseteq Methods
  /\ NumFactors \in Nat \ {0}
  /\ NumFadeOut \in FactorIndex /\ NumFadeIn \in FactorIndex
  /\ NumMuteRelease \in Nat
  /\ NumFadeOut + NumShort <= NumFactors /\ NumFadeIn + NumShort < NumFactors
  /\ Full \in Nat /\ FadeFactor \in [FactorIndex -> 0..Full]
  /\ NumShort \in Nat \ {0} /\ LastGroups \subseteq 1..NumShort
  /\ Oldest \in Nat /\ LongRun \in Nat \ {0}

WindowSequences == {"Long", "Start", "Short", "Stop"}
States == {"Ok", "Single", "FadeIn", "Mute", "FadeOut"}

\* A spectrum: the ages of the frames it is made of, none for silence or a
\* buffer nothing was stored in, and its layout.
Spectrum == [from : SUBSET (0..Oldest), short : BOOLEAN]
Silence == [from |-> {}, short |-> FALSE]

\* What the parser hands over for a good frame, or what a flush leaves of the one
\* before: its windows, and a spectrum that is cleared.
Frame == {f \in [sequence : WindowSequences, group : 1..NumShort, cleared : BOOLEAN] :
            IF f.sequence = "Short" THEN f.group \in LastGroups ELSE f.group = 1}
LongFrame == [sequence |-> "Long", group |-> 1, cleared |-> FALSE]

-----------------------------------------------------------------------------
\* What some of the theorems ask of the constants on top of ConcealAssumption.
\* The factors of the table never rise, and up to the length of a fade-in each is
\* below the one before it by more than the bit findEquiFadeFrame drops: the powers
\* of 1/sqrt(2) the decoder starts with do so.
SlopesFall ==
  /\ \A a, b \in FactorIndex : a <= b => FadeFactor[b] <= FadeFactor[a]
  /\ \A a, b \in 0..NumFadeIn : a < b => FadeFactor[b] \div 2 < FadeFactor[a] \div 2

\* The method that mutes spectra is not chosen, nor left, while the decoder runs: a
\* fade it interrupts is not continued.
MuteStays == "Mute" \notin Switchable

\* CONCEAL_DFLT_MUTE_RELEASE_FRAMES; two ages are told apart from all older ones.
ReleasesAtOnce == NumMuteRelease = 0 /\ Oldest >= 2

-----------------------------------------------------------------------------
VARIABLES
  method,   \* CConcealParams.method
  info,     \* the CConcealmentInfo
  out,      \* the spectrum and window sequence the channel renders
  noise,    \* whether comfort noise was added to the frame
  recent,   \* history: which of the last frames since a reset were good, newest first
  run,      \* history: how many frames up to the last one were like it, for one method
  switched  \* history: the method was changed since a reset

vars == <<method, info, out, noise, recent, run, switched>>

Offsets == [winGrp : Nat, attGrp : Nat]
NoOffsets == [winGrp |-> 0, attGrp |-> 0]

\* inRange is no field of the code: it says whether the FDK_ASSERT on srcWin of
\* CConcealment_ApplyFadeOut has always held.
Info ==
  [concealState : States, concealState_old : States, cntValidFrames : Nat,
   cntFadeFrames : -1..NumFactors, prevFrameOk : [0..1 -> BOOLEAN], offset : [0..1 -> Offsets],
   spectrum : Spectrum, windowSequence : WindowSequences, lastWinGrpLen : 1..NumShort,
   fade_old : 0..Full, inRange : BOOLEAN]

\* CConcealment_InitChannelData; concealState_old is not among what it sets.
InitChannelData(old) ==
  [concealState |-> "Ok", concealState_old |-> old, cntValidFrames |-> 0,
   cntFadeFrames |-> 0, prevFrameOk |-> [k \in 0..1 |-> TRUE],
   offset |-> [k \in 0..1 |-> NoOffsets], spectrum |-> Silence,
   windowSequence |-> "Long", lastWinGrpLen |-> 1, fade_old |-> Full, inRange |-> TRUE]

-----------------------------------------------------------------------------
\* The ages of a spectrum one frame later.
Older(s) == [s EXCEPT !.from = {IF a < Oldest THEN a + 1 ELSE a : a \in @}]

Distance(a, b) == IF a >= b THEN a - b ELSE b - a

\* findEquiFadeFrame: the first factor nearest to the current one, which is
\* then moved one step in the direction of the new slope.
FactorDistance(i, reference) == Distance(FadeFactor[i] \div 2, reference)
NearestFactor(reference) ==
  CHOOSE i \in FactorIndex :
    \A j \in FactorIndex :
      \/ FactorDistance(i, reference) < FactorDistance(j, reference)
      \/ FactorDistance(i, reference) = FactorDistance(j, reference) /\ i <= j

Reference(index) == IF index < 0 THEN Full ELSE FadeFactor[index] \div 2

\* Faulty: every fade-in begins at the bottom of its slope.
EquiFadeInBottom(index) == NumFadeIn - 1

EquiFadeIn(index) ==
  LET nearest == NearestFactor(Reference(index))
      i == IF nearest <= NumFadeIn THEN nearest
           ELSE IF NumFadeIn > 0 THEN NumFadeIn - 1 ELSE 0
  IN  IF FadeFactor[i] \div 2 <= Reference(index) /\ i > 0 THEN i - 1 ELSE i

EquiFadeOut(index) ==
  LET i == NearestFactor(Reference(index))
  IN  IF FadeFactor[i] \div 2 >= Reference(index) /\ i < NumFactors - 1 THEN i + 1 ELSE i

-----------------------------------------------------------------------------
\* CConcealment_ApplyFadeOut repeats the windows of the last group of the
\* stored frame from the offset it stopped at, and counts one fade frame per
\* attIdxStride repetitions.
NumWindows(i) == IF i.windowSequence = "Short" THEN NumShort ELSE 1
GroupLen(i) == IF i.windowSequence = "Short" THEN i.lastWinGrpLen ELSE 1
AttIdxStride(i) ==
  LET s == NumWindows(i) \div (i.lastWinGrpLen + 1) IN IF s >= 1 THEN s ELSE 1

\* An offset at or past the end of its range wraps after one window.
Clip(offset, range) == IF offset < range THEN offset ELSE range - 1
Repeats(i, m) ==
  (Clip(i.offset[m].winGrp, GroupLen(i)) + NumWindows(i)) \div GroupLen(i)
NextOffset(i, m) ==
  [winGrp |-> (Clip(i.offset[m].winGrp, GroupLen(i)) + NumWindows(i)) % GroupLen(i),
   attGrp |-> (Clip(i.offset[m].attGrp, AttIdxStride(i)) + Repeats(i, m)) % AttIdxStride(i)]
FadeSteps(i, m) ==
  (Clip(i.offset[m].attGrp, AttIdxStride(i)) + Repeats(i, m)) \div AttIdxStride(i)

\* The windows read are windows of the frame.
InRange(i, m) == i.offset[m].winGrp < GroupLen(i)

\* mode 0 counts, mode 1 renders.  Windows past the end of the slope, which
\* mode 1 clears before it renders them, are not told apart from the others.
CountFadeOut(i) ==
  [i EXCEPT !.cntFadeFrames = @ + FadeSteps(i, 0), !.offset[0] = NextOffset(i, 0),
            !.inRange = @ /\ InRange(i, 0)]
RenderFadeOut(i) ==
  [i EXCEPT !.offset[1] = NextOffset(i, 1), !.inRange = @ /\ InRange(i, 1)]

ResetOffsets(i) == [i EXCEPT !.offset = [k \in 0..1 |-> NoOffsets]]

CountValid(i, valid) ==
  [i EXCEPT !.cntValidFrames = IF i.concealState = "Ok" THEN @
                               ELSE IF valid THEN @ + 1 ELSE 0]

Enter(i, state) == [i EXCEPT !.concealState = state]
FadeInOrOk(i, index) ==
  IF NumFadeIn > 0 THEN [i EXCEPT !.concealState = "FadeIn", !.cntFadeFrames = index]
                   ELSE Enter(i, "Ok")

Released(i) == i.cntValidFrames > NumMuteRelease
FadedOut(i) == i.cntFadeFrames >= NumFadeOut

-----------------------------------------------------------------------------
\* CConcealment_UpdateState, the state machine of noise substitution.

\* Faulty: a new loss goes on with the window offsets of the last one.
NoiseOkStale(i, ok) ==
  LET j == [i EXCEPT !.cntFadeFrames = 0, !.cntValidFrames = 0]
  IN  IF ok THEN i
      ELSE IF NumFadeOut > 0 THEN CountFadeOut(Enter(j, "Single")) ELSE Enter(j, "Mute")

NoiseOk(i, ok) ==
  LET j == ResetOffsets([i EXCEPT !.cntFadeFrames = 0, !.cntValidFrames = 0])
  IN  IF ok THEN i
      ELSE IF NumFadeOut > 0 THEN CountFadeOut(Enter(j, "Single")) ELSE Enter(j, "Mute")

NoiseSingle(i, ok) ==
  IF ok THEN Enter(i, "Ok")
  ELSE IF FadedOut(i) THEN Enter(i, "Mute") ELSE CountFadeOut(Enter(i, "FadeOut"))

\* A good frame that is not released yet restarts the windows of the group.
HoldOffsets(i, ok) == IF ok THEN ResetOffsets(i) ELSE i

NoiseFadeOut(i, ok) ==
  IF Released(i) THEN FadeInOrOk(i, EquiFadeIn(i.cntFadeFrames))
  ELSE IF FadedOut(i) THEN Enter(HoldOffsets(i, ok), "Mute")
  ELSE CountFadeOut(HoldOffsets(i, ok))

NoiseMute(i, ok) ==
  IF Released(i) THEN FadeInOrOk(i, NumFadeIn - 1) ELSE HoldOffsets(i, ok)

\* Faulty: good frames do not move the fade-in on.
NoiseFadeInStuck(i, ok) ==
  LET k == ResetOffsets([i EXCEPT !.cntFadeFrames = EquiFadeOut(@) - 1])
  IN  IF ok THEN i
      ELSE IF NumFadeOut > 0 THEN CountFadeOut(Enter(k, "FadeOut")) ELSE Enter(i, "Mute")

NoiseFadeIn(i, ok) ==
  LET j == [i EXCEPT !.cntFadeFrames = @ - 1]
      k == ResetOffsets([i EXCEPT !.cntFadeFrames = EquiFadeOut(@) - 1])
  IN  IF ok THEN IF j.cntFadeFrames < 0 THEN Enter(j, "Ok") ELSE j
      ELSE IF NumFadeOut > 0 THEN CountFadeOut(Enter(k, "FadeOut")) ELSE Enter(j, "Mute")

UpdateNoise(i, ok) ==
  LET j == CountValid(i, ok)
  IN  CASE i.concealState = "Ok"      -> NoiseOk(j, ok)
        [] i.concealState = "Single"  -> NoiseSingle(j, ok)
        [] i.concealState = "FadeOut" -> NoiseFadeOut(j, ok)
        [] i.concealState = "Mute"    -> NoiseMute(j, ok)
        [] i.concealState = "FadeIn"  -> NoiseFadeIn(j, ok)

\* The same for energy interpolation, which decides on the frame before the
\* current one: it counts as good if it can be estimated from its neighbours.
Estimable(i, ok) == i.prevFrameOk[1] \/ (i.prevFrameOk[0] /\ ok)

InterOk(i, ok) ==
  IF Estimable(i, ok) THEN i
  ELSE [i EXCEPT !.concealState = IF NumFadeOut > 0 THEN "FadeOut" ELSE "Mute",
                 !.cntFadeFrames = 0, !.cntValidFrames = 0]

\* Faulty: lost frames are not counted.
InterFadeOutFlat(i) ==
  IF Released(i) THEN FadeInOrOk(i, EquiFadeIn(i.cntFadeFrames))
  ELSE IF FadedOut(i) THEN Enter(i, "Mute") ELSE i

InterFadeOut(i) ==
  LET j == [i EXCEPT !.cntFadeFrames = @ + 1]
  IN  IF Released(i) THEN FadeInOrOk(j, EquiFadeIn(i.cntFadeFrames))
      ELSE IF FadedOut(j) THEN Enter(j, "Mute") ELSE j

InterMute(i) == IF Released(i) THEN FadeInOrOk(i, NumFadeIn - 1) ELSE i

\* Faulty: the fade-in ends one frame after its last factor.
InterFadeInLate(i, ok) ==
  LET j == [i EXCEPT !.cntFadeFrames = @ - 1]
  IN  IF ok \/ i.prevFrameOk[1]
      THEN IF i.cntFadeFrames < 0 THEN Enter(j, "Ok") ELSE j
      ELSE IF NumFadeOut > 0
           THEN [i EXCEPT !.concealState = "FadeOut", !.cntFadeFrames = EquiFadeOut(@)]
           ELSE Enter(j, "Mute")

InterFadeIn(i, ok) ==
  LET j == [i EXCEPT !.cntFadeFrames = @ - 1]
  IN  IF ok \/ i.prevFrameOk[1]
      THEN IF j.cntFadeFrames < 0 THEN Enter(j, "Ok") ELSE j
      ELSE IF NumFadeOut > 0
           THEN [i EXCEPT !.concealState = "FadeOut", !.cntFadeFrames = EquiFadeOut(@)]
           ELSE Enter(j, "Mute")

UpdateInter(i, ok) ==
  LET j == CountValid(i, Estimable(i, ok))
  IN  CASE i.concealState = "Ok"      -> InterOk(j, ok)
        [] i.concealState = "Single"  -> Enter(j, "Ok")
        [] i.concealState = "FadeOut" -> InterFadeOut(j)
        [] i.concealState = "Mute"    -> InterMute(j)
        [] i.concealState = "FadeIn"  -> InterFadeIn(j, ok)

UpdateState(i, ok) ==
  CASE method = "Noise" -> UpdateNoise(i, ok)
    [] method = "Inter" -> UpdateInter(i, ok)
    [] method = "Mute"  -> i

-----------------------------------------------------------------------------
\* CConcealment_GetWinSeq.
WinSeqAfter(sequence) == IF sequence \in {"Start", "Short"} THEN "Stop" ELSE "Long"

MuteReleaseActive(ok) ==
  /\ ok /\ info.concealState \in {"Mute", "FadeOut"}
  /\ info.cntValidFrames + 1 <= NumMuteRelease

Parsed(frame) ==
  [spectrum |-> [from |-> IF frame.cleared THEN {} ELSE {0}, short |-> frame.sequence = "Short"],
   sequence |-> frame.sequence]
Kept(i) == [spectrum |-> i.spectrum, sequence |-> i.windowSequence]

\* Faulty: the window sequence is not stored with the spectrum.
StoreSpectrumOnly(i, frame) ==
  [i EXCEPT !.spectrum = Parsed(frame).spectrum, !.lastWinGrpLen = frame.group]

\* Faulty: frames that arrive during concealment are not stored.
StoreWhenOk(i, frame) ==
  IF i.concealState # "Ok" THEN i
  ELSE [i EXCEPT !.spectrum = Parsed(frame).spectrum, !.windowSequence = frame.sequence,
                 !.lastWinGrpLen = frame.group]

\* CConcealment_Store.
Store(i, frame) ==
  [i EXCEPT !.spectrum = Parsed(frame).spectrum, !.windowSequence = frame.sequence,
            !.lastWinGrpLen = frame.group]

\* The frame between `before' and `after', from their energies.
Interpolated(before, after) ==
  LET both == before.spectrum.from \cup after.spectrum.from
      mix(x, sequence) ==
        [spectrum |-> [from |-> both, short |-> x.spectrum.short], sequence |-> sequence]
  IN  CASE before.sequence = "Short" /\ after.sequence = "Short" -> mix(before, "Short")
        [] before.sequence = "Short" /\ after.sequence # "Short" -> mix(after, "Stop")
        [] before.sequence # "Short" /\ after.sequence = "Short" -> mix(before, "Start")
        [] before.sequence # "Short" /\ after.sequence # "Short" -> mix(before, "Long")

\* What every method does in the state MUTE: silence, in long windows.
Muted(i) == [i EXCEPT !.windowSequence = WinSeqAfter(@)]
MutedOut(i) == [spectrum |-> Silence, sequence |-> WinSeqAfter(i.windowSequence)]

\* CConcealment_ApplyNoise: the channel's data after the update, and `data',
\* what the parser left in the channel.
ApplyNoise(i, data) ==
  CASE i.concealState \in {"Ok", "FadeIn"} -> [info |-> i, out |-> data]
    [] i.concealState \in {"Single", "FadeOut"} ->
         [info |-> RenderFadeOut(i), out |-> Kept(i)]
    [] i.concealState = "Mute" ->
         [info |-> [Muted(i) EXCEPT !.spectrum = Silence], out |-> MutedOut(i)]

\* Faulty: the frame is copied to the buffer and not exchanged with it.
ApplyInterCopied(i, before, ok, release) ==
  IF i.concealState = "Mute" THEN [info |-> Muted(i), out |-> MutedOut(i)]
  ELSE [info |-> i, out |-> Kept(i)]

\* CConcealment_ApplyInter: `before' is what the buffer held before Store.
ApplyInter(i, before, ok, release) ==
  LET shown == IF ok /\ ~release THEN before ELSE Kept(i)
      both == ok /\ ~release /\ ~i.prevFrameOk[1] /\ i.prevFrameOk[0]
  IN  IF i.concealState = "Mute" THEN [info |-> Muted(i), out |-> MutedOut(i)]
      ELSE [info |-> i, out |-> IF both THEN Interpolated(shown, Kept(i)) ELSE shown]

ApplyMute(i, data, ok) ==
  [info |-> i, out |-> IF ok THEN data ELSE [data EXCEPT !.spectrum = Silence]]

ApplyMethod(i, before, data, ok, release) ==
  CASE method = "Noise" -> ApplyNoise(i, data)
    [] method = "Inter" -> ApplyInter(i, before, ok, release)
    [] method = "Mute"  -> ApplyMute(i, data, ok)

-----------------------------------------------------------------------------
\* CConcealment_TDFading: the level at the end of the frame.
LevelAt(index) == IF index < 0 THEN Full ELSE FadeFactor[index]

FadeOutIndex(i) == IF method = "Noise" THEN i.cntFadeFrames - 1 ELSE i.cntFadeFrames

FadeStop(i) ==
  CASE i.concealState = "Ok" -> Full
    [] i.concealState = "FadeIn" -> LevelAt(i.cntFadeFrames - 1)
    [] i.concealState \in {"Single", "FadeOut", "Mute"} ->
         IF i.concealState = "Mute" \/ i.cntFadeFrames + 1 > NumFadeOut
         THEN 0 ELSE LevelAt(FadeOutIndex(i))

TDFading(i) == [i EXCEPT !.fade_old = FadeStop(i), !.concealState_old = i.concealState]

\* CConcealment_TDNoise_Apply, called with the state of this and the last frame.
NoiseAdded(i) == i.concealState # "Ok" \/ i.concealState_old # "Ok"

-----------------------------------------------------------------------------
Init ==
  /\ method \in Methods
  /\ info = InitChannelData("Ok")
  /\ out = [spectrum |-> Silence, sequence |-> "Long"]
  /\ noise = FALSE /\ recent = << >> /\ run = 0 /\ switched = FALSE

\* CConcealment_Apply and CConcealment_TDFading.
Render(ok, frame) ==
  LET release == MuteReleaseActive(ok)
      aged == [info EXCEPT !.spectrum = Older(@)]
      stored == IF ok /\ ~release THEN Store(aged, frame) ELSE aged
      applied == ApplyMethod(UpdateState(stored, ok), Kept(aged), Parsed(frame), ok, release)
      next == [applied.info EXCEPT !.prevFrameOk = [k \in 0..1 |->
                                      IF k = 0 THEN @[1] ELSE ok]]
  IN  /\ info' = TDFading(next)
      /\ out' = applied.out
      /\ noise' = NoiseAdded(next)
      /\ UNCHANGED method

Heard(ok) ==
  /\ recent' = SubSeq(<<ok>> \o recent, 1, IF Len(recent) < 3 THEN Len(recent) + 1 ELSE 3)
  /\ run' = IF recent # << >> /\ recent[1] = ok
            THEN IF run < LongRun THEN run + 1 ELSE run
            ELSE 1
Forgotten == recent' = << >> /\ run' = 0

GoodFrame(frame) ==
  ~frame.cleared /\ Render(TRUE, frame) /\ Heard(TRUE) /\ UNCHANGED switched

\* What the parser left of a lost frame is never rendered, whatever it is.
LostFrame == Render(FALSE, LongFrame) /\ Heard(FALSE) /\ UNCHANGED switched

\* AACDEC_FLUSH: what is delayed is rendered, and silence goes in behind it, in the
\* windows that were rendered last.
Flush(frame) ==
  /\ frame.cleared /\ frame.sequence = out.sequence
  /\ Render(TRUE, frame) /\ Forgotten /\ UNCHANGED switched

\* aacDecoder_SetParam(AAC_CONCEAL_METHOD) between two frames.
SetMethod(m) ==
  /\ {method, m} \subseteq Switchable
  /\ method' = m
  /\ run' = IF m = method THEN run ELSE 0
  /\ switched' = (switched \/ m # method)
  /\ UNCHANGED <<info, out, noise, recent>>

\* AACDEC_CLRHIST: the stream was interrupted, everything of it is forgotten.
ClearHistory ==
  /\ info' = InitChannelData(info.concealState_old)
  /\ Forgotten /\ switched' = FALSE
  /\ out' = [spectrum |-> Silence, sequence |-> "Long"] /\ noise' = FALSE
  /\ UNCHANGED method

Next ==
  \/ \E frame \in Frame : GoodFrame(frame) \/ Flush(frame)
  \/ LostFrame
  \/ \E m \in Methods : SetMethod(m)
  \/ ClearHistory

Spec == Init /\ [][Next]_vars

-----------------------------------------------------------------------------
TypeOK ==
  /\ method \in Methods /\ info \in Info
  /\ out \in [spectrum : Spectrum, sequence : WindowSequences]
  /\ noise \in BOOLEAN /\ recent \in Seq(BOOLEAN) /\ run \in 0..LongRun
  /\ switched \in BOOLEAN

\* With noise substitution throughout, a spectrum that was parsed as short blocks is
\* rendered in short windows, and one parsed as a long block in long ones: window
\* sequence and spectrum go through the buffer together.
WindowsFitSpectrum ==
  (method = "Noise" /\ ~switched) =>
    (out.spectrum.from # {} => (out.spectrum.short <=> out.sequence = "Short"))

\* The FDK_ASSERT on srcWin of CConcealment_ApplyFadeOut holds: whenever it goes on from
\* an offset, that is an offset into the last group of the frame that is stored,
\* however the stored frame and the state changed since the offset was kept.
OffsetsFitGroup == info.inRange

\* The same as long as the method is not switched.
OffsetsStayInGroup == ~switched => OffsetsFitGroup

Good(n) == recent # << >> /\ recent[1] /\ run >= n
Lost(n) == recent # << >> /\ ~recent[1] /\ run >= n

\* After enough good frames the channel is back to normal, at full level.
Recovers ==
  Good(NumMuteRelease + NumFadeIn + 3) => info.concealState = "Ok" /\ info.fade_old = Full

\* After enough lost frames it is silent.
FallsSilent == Lost(NumFadeOut + 3) => info.fade_old = 0 \/ out.spectrum.from = {}

\* While frames keep being lost the level never rises, and while they keep
\* being good it never falls: the slopes never turn round on their own.
SlopesKeepDirection ==
  [][/\ (recent' # << >> /\ Lost(1) /\ ~recent'[1]) => info'.fade_old <= info.fade_old
     /\ (recent' # << >> /\ Good(NumMuteRelease + 1) /\ recent'[1])
          => info'.fade_old >= info.fade_old]_vars

Newest(s) == CHOOSE a \in s.from : \A b \in s.from : a <= b

\* Output never goes back in the stream: the newest frame something is rendered
\* from is never older than the newest one that was.
NeverReplays ==
  [][(out.spectrum.from # {} /\ out'.spectrum.from # {} /\ recent' # << >>)
       => Newest(out'.spectrum) <= Newest(out.spectrum) + 1]_vars

\* Energy interpolation throughout delays the signal by one frame and, unless it is
\* muted, shows every good frame once it knows whether the next one is good.
DelaysOneFrame ==
  (method = "Inter" /\ ~switched /\ Len(recent) = 3 /\ info.concealState # "Mute") =>
    IF recent[2] THEN out.spectrum.from = {1}
    ELSE IF recent[1] /\ recent[3] THEN out.spectrum.from = {0, 2}
    ELSE 0 \notin out.spectrum.from /\ 1 \notin out.spectrum.from

=============================================================================
