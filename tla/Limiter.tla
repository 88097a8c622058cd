------------------------------ MODULE Limiter ------------------------------
(***************************************************************************)
(* The limiter of the decoder's output (libPCMutils/src/limiter.cpp): a    *)
(* delay line, and the maximum of the last samples, from which the gain is *)
(* taken that the delayed samples get.  The maximum is kept from sample to *)
(* sample and searched for only when it may have left its window.  The     *)
(* decoder sets the number of channels and the sampling rate before every  *)
(* frame, the application the attack time at any time, and none of them    *)
(* resets the limiter.  Samples are levels in the window of the maximum,   *)
(* and ages in the delay line; the smoothing of the gain is not modelled.  *)
(***************************************************************************)
EXTENDS Integers, Sequences

CONSTANTS
  Attacks,     \* what an attack time may be in samples
  MaxAttack,   \* the longest of them, which memory was allocated for
  MaxChannels,
  MaxLevel,    \* MAXVAL_DBL
  Thresholds,  \* levels the limiter may be set to
  Scalings,    \* 2^scaling, for the scalings that samples may come with
  MaxChanges   \* bound: changes of parameters since a reset

ASSUME LimiterAssumption ==
  /\ MaxAttack \in Nat \ {0} /\ Attacks \subseteq 1..MaxAttack /\ MaxAttack \in Attacks
  /\ MaxChannels \in Nat \ {0}
  /\ MaxLevel \in Nat /\ Thresholds \subseteq 0..MaxLevel
  /\ Scalings \subseteq Nat \ {0} /\ 1 \in Scalings
  /\ MaxChanges \in Nat

Level == 0..MaxLevel
Slot == 0..(MaxAttack * MaxChannels - 1)

\* A delayed sample: how many samples ago it came in, and in which channel.
\* Samples before a reset are cleared.
Delayed == [age : 1..(MaxAttack + 1), channel : 0..(MaxChannels - 1)]
Cleared == [age |-> 0, channel |-> 0]

VARIABLES
  attack, channels, threshold, scaling,
  max, maxBuf, maxBufIdx,
  delayBuf, delayBufIdx,
  out,      \* the samples of all channels that came out last
  recent,   \* history: the levels of the last samples, newest first
  since,    \* history: samples since the last reset, up to MaxAttack + 2,
  steady,   \* and since a parameter was changed; a reset makes up for all changes
  lost,     \* history: a shorter attack has left the maximum outside the window, and
            \* it has not been set since
  changes

window == <<max, maxBuf, maxBufIdx>>
line == <<delayBuf, delayBufIdx>>
history == <<out, recent, since, steady, lost>>
vars == <<attack, channels, threshold, scaling, window, line, history, changes>>

Smaller(a, b) == IF a < b THEN a ELSE b
Larger(a, b) == IF a > b THEN a ELSE b
Upto(bound, n) == IF n < bound THEN n + 1 ELSE n
Settled == MaxAttack + 2

-----------------------------------------------------------------------------
\* Faulty: the end of the window is met only if it is not jumped over.
NextIndexExact(i, size) == IF i + 1 = size THEN 0 ELSE i + 1

\* maxBufIdx and delayBufIdx: a shorter window may end before the index.
NextIndex(i, size) == IF i + 1 >= size THEN 0 ELSE i + 1

\* scaleValuesSaturate and scaleValueSaturate from one scaling to another
Rescaled(v, s) ==
  IF s <= scaling THEN Smaller(v * (scaling \div s), MaxLevel) ELSE v \div (s \div scaling)

\* The window in the scaling of the samples that come in; what lies behind it
\* keeps its own.
WindowIn(s) ==
  IF s = scaling THEN maxBuf
  ELSE [i \in 0..MaxAttack |-> IF i <= attack THEN Rescaled(maxBuf[i], s) ELSE maxBuf[i]]
MaxIn(s) == IF s = scaling THEN max ELSE Rescaled(max, s)

\* Faulty: a sample as loud as the maximum may leave the window unnoticed.
KeepsMaxOfEqual(level, old, m) == level < m /\ old <= m

\* The maximum stays, if the sample that leaves the window was not the maximum.
KeepsMax(level, old, m) == level < m /\ old < m

RunningMax(level, s) ==
  LET buf == WindowIn(s)
      m == MaxIn(s)
      old == buf[maxBufIdx]
      new == [buf EXCEPT ![maxBufIdx] = level]
  IN  /\ maxBuf' = new
      /\ \/ level >= m /\ max' = level /\ lost' = (maxBufIdx > attack)
         \/ KeepsMax(level, old, m) /\ max' = m /\ UNCHANGED lost
         \/ /\ level < m /\ ~KeepsMax(level, old, m)
            /\ max' \in {new[i] : i \in 0..attack} /\ \A i \in 0..attack : new[i] <= max'
            /\ lost' = FALSE
      /\ maxBufIdx' = NextIndex(maxBufIdx, attack + 1)

\* The delay line: the samples of one time are exchanged with those that came in
\* when the index was here before.
Older(d) == IF d = Cleared THEN d ELSE [d EXCEPT !.age = Smaller(@ + 1, MaxAttack + 1)]

\* Faulty: the new samples are stored before the delayed ones are taken.
DelayBehind ==
  LET here == delayBufIdx * channels
  IN  /\ delayBuf' = [p \in Slot |-> IF p \in here..(here + channels - 1)
                                     THEN [age |-> 1, channel |-> p - here]
                                     ELSE Older(delayBuf[p])]
      /\ out' = [channel \in 0..(channels - 1) |-> delayBuf'[here + channel]]
      /\ delayBufIdx' = NextIndex(delayBufIdx, attack)

Delay ==
  LET here == delayBufIdx * channels
  IN  /\ out' = [channel \in 0..(channels - 1) |-> delayBuf[here + channel]]
      /\ delayBuf' = [p \in Slot |-> IF p \in here..(here + channels - 1)
                                     THEN [age |-> 1, channel |-> p - here]
                                     ELSE Older(delayBuf[p])]
      /\ delayBufIdx' = NextIndex(delayBufIdx, attack)

\* pcmLimiter_Apply for one sample of every channel, level being the loudest of them.
\* A call with many samples is a call with each of them.
Apply(level, s) ==
  LET stored == Larger(level, threshold \div s)
  IN  /\ RunningMax(stored, s)
      /\ Delay
      /\ recent' = [i \in 1..(MaxAttack + 1) |->
                      IF i = 1 THEN stored
                      ELSE IF s = scaling THEN recent[i - 1] ELSE Rescaled(recent[i - 1], s)]
      /\ since' = Upto(Settled, since) /\ steady' = Upto(Settled, steady)
      /\ scaling' = s
      /\ UNCHANGED <<attack, channels, threshold, changes>>

-----------------------------------------------------------------------------
Change ==
  /\ changes < MaxChanges /\ changes' = changes + 1
  /\ steady' = 0 /\ out' = << >>
  /\ UNCHANGED <<scaling, window, line, recent, since>>

\* pcmLimiter_SetAttack, and pcmLimiter_SetSampleRate for an attack time in samples
SetAttack(n) ==
  /\ n # attack
  /\ attack' = n /\ lost' = (lost \/ n < attack)
  /\ Change /\ UNCHANGED <<channels, threshold>>

SetNChannels(n) ==
  /\ n # channels
  /\ channels' = n
  /\ Change /\ UNCHANGED <<attack, threshold, lost>>

SetThreshold(level) ==
  /\ level # threshold
  /\ threshold' = level
  /\ Change /\ UNCHANGED <<attack, channels, lost>>

\* Only what the present attack time and channels use is cleared.
Reset ==
  /\ maxBufIdx' = 0 /\ delayBufIdx' = 0 /\ max' = 0 /\ scaling' = 1
  /\ maxBuf' = [i \in 0..MaxAttack |-> IF i <= attack THEN 0 ELSE maxBuf[i]]
  /\ delayBuf' = [p \in Slot |-> IF p < attack * channels THEN Cleared ELSE delayBuf[p]]
  /\ out' = << >> /\ recent' = [i \in 1..(MaxAttack + 1) |-> 0]
  /\ since' = 0 /\ steady' = Settled /\ lost' = FALSE /\ changes' = 0
  /\ UNCHANGED <<attack, channels, threshold>>

\* pcmLimiter_Create
Init ==
  /\ attack = MaxAttack /\ channels = MaxChannels /\ threshold \in Thresholds /\ scaling = 1
  /\ max = 0 /\ maxBuf = [i \in 0..MaxAttack |-> 0] /\ maxBufIdx = 0
  /\ delayBuf = [p \in Slot |-> Cleared] /\ delayBufIdx = 0
  /\ out = << >> /\ recent = [i \in 1..(MaxAttack + 1) |-> 0]
  /\ since = 0 /\ steady = Settled /\ lost = FALSE /\ changes = 0

Next ==
  \/ \E level \in Level, s \in Scalings : Apply(level, s)
  \/ \E n \in Attacks : SetAttack(n)
  \/ \E n \in 1..MaxChannels : SetNChannels(n)
  \/ \E level \in Thresholds : SetThreshold(level)
  \/ Reset

Spec == Init /\ [][Next]_vars

-----------------------------------------------------------------------------
\* The indices stay in the memory that was allocated, also when the attack time or
\* the channels have changed under them.
TypeOK ==
  /\ attack \in Attacks /\ channels \in 1..MaxChannels
  /\ threshold \in Thresholds /\ scaling \in Scalings
  /\ max \in Level /\ maxBuf \in [0..MaxAttack -> Level] /\ maxBufIdx \in 0..MaxAttack
  /\ delayBuf \in [Slot -> Delayed \cup {Cleared}] /\ delayBufIdx \in 0..(MaxAttack - 1)
  /\ recent \in [1..(MaxAttack + 1) -> Level]
  /\ since \in 0..Settled /\ steady \in 0..Settled
  /\ lost \in BOOLEAN /\ changes \in 0..MaxChanges

\* After attack + 2 samples with the same parameters the running maximum is the
\* maximum of the window: of the sample that came in last and of the attack samples
\* in front of it, those that are still to come out.  So none of them gets a gain
\* that is too high for it.  (Not so while a maximum is kept that a shorter attack
\* left outside of the window: lost.)
MaximumIsRunning ==
  (steady >= attack + 2 /\ ~lost) =>
    /\ max \in {recent[i] : i \in 1..(attack + 1)}
    /\ \A i \in 1..(attack + 1) : recent[i] <= max

\* pcmLimiter_GetDelay, "exact delay caused by the limiter in samples per channel":
\* every channel gets its own sample from attack samples ago, or silence up to a reset.
DelayIsExact ==
  (steady >= attack + 2 /\ out # << >>) =>
    \A channel \in 0..(channels - 1) :
      out[channel] = IF since <= attack THEN Cleared
                     ELSE [age |-> attack, channel |-> channel]
=============================================================================
