--------------------------- MODULE EncoderProofs ---------------------------
(***************************************************************************)
(* For frames and delays of any length and any number of samples: of an     *)
(* application that does not go on with samples after a flush, every sample *)
(* reaches the core once and in order, and the end is reported when the     *)
(* delay is through.                                                        *)
(***************************************************************************)
EXTENDS Encoder, TLAPS

\* The sample due at index i of the buffer, or zero behind the last one.
Due(e, i) == IF encoded + 1 + i <= e.fed THEN encoded + 1 + i ELSE 0

\* The encoder in the course of a call: nothing taken is missing, zeros are in the
\* buffer during a flush only, and those appended were encoded, or are counted anew.
Sound(e) ==
  /\ e \in EncoderState
  /\ encoded <= e.fed /\ e.fed - encoded <= e.read
  /\ "CONFIG" \notin e.flags => e.toRead > 0
  /\ e.toRead > 0 => e.delay > 0
  /\ (e.flags = {} /\ e.zeros > 0) =>
       e.read = 0 /\ flushing /\ silence >= Smaller(e.zeros, e.delay)

InOrder(e) ==
  ~mixed =>
    /\ e.fed - encoded < e.read => flushing
    /\ \A i \in 0..(e.read - 1) : e.pcm[i] = Due(e, i) \/ (failed /\ e.pcm[i] = 0)

IInv ==
  /\ TypeOK /\ EofMeansFlushed
  /\ Sound(Now) /\ InOrder(Now)
  /\ mixed => nSamplesRead # 0
  /\ ~mixed => /\ nSamplesRead <= nSamplesToRead
               /\ nSamplesRead # 0 /\ "OTHER" \in InitFlags => failed
-----------------------------------------------------------------------------
\* Frame lengths, and what is known of the longest one.
LEMMA FrameLengths ==
  /\ LongestFrame \in Nat \ {0}
  /\ \A n \in Lengths : n \in Nat \ {0} /\ n <= LongestFrame
  /\ \A n \in Supported : n \in Lengths /\ Delay[n] \in Nat \ {0}
<1>1. \E max \in Lengths : \A n \in Lengths : n <= max
  BY EncoderAssumption
<1>2. LongestFrame \in Lengths /\ \A n \in Lengths : n <= LongestFrame
  BY <1>1 DEF LongestFrame
<1> QED BY <1>2, EncoderAssumption

\* Silence is what a buffer may hold.
LEMMA SilenceTyped == Silence \in [Index -> Nat]
BY DEF Silence

\* aacEncInit leaves what waits in the buffer in order, or silence for what has failed.
LEMMA InitializedSound ==
  ASSUME IInv, InitFlags # {}, ~Refused(Now), NEW e, e = Initialized(Now)
  PROVE  /\ Sound(e) /\ InOrder(e)
         /\ e.flags = {} /\ e.read = nSamplesRead /\ e.fed = fed /\ e.zeros = 0
<1>1. /\ e.flags = {} /\ e.read = nSamplesRead /\ e.fed = fed /\ e.zeros = 0
      /\ e.pcm = IF InitFlags = InitAll THEN Silence ELSE inputBuffer
      /\ e.toRead = IF "CONFIG" \in InitFlags THEN userFramelength ELSE nSamplesToRead
      /\ e.delay = IF "CONFIG" \in InitFlags THEN Delay[userFramelength] ELSE nDelay
      /\ e = [flags |-> e.flags, pcm |-> e.pcm, read |-> e.read, toRead |-> e.toRead,
              zeros |-> e.zeros, delay |-> e.delay, fed |-> e.fed]
  BY DEF Initialized, Cleared, Now
<1>2. "CONFIG" \in InitFlags => userFramelength \in Supported
  BY DEF Refused, Now
<1>3. /\ Now.pcm = inputBuffer /\ Now.read = nSamplesRead /\ Now.toRead = nSamplesToRead
      /\ Now.delay = nDelay /\ Now.fed = fed /\ Now.flags = InitFlags
  BY DEF Now
<1>4. e.toRead \in Supported /\ e.toRead > 0 /\ e.delay \in Nat /\ e.delay > 0
  BY <1>1, <1>2, <1>3, FrameLengths DEF IInv, TypeOK, Sound
<1>5. e \in EncoderState
  BY <1>1, <1>4, SilenceTyped DEF IInv, TypeOK, EncoderState
<1>6. Sound(e)
  BY <1>1, <1>3, <1>4, <1>5 DEF IInv, Sound
<1>7. InOrder(e)
  <2> SUFFICES ASSUME ~mixed
               PROVE  /\ e.fed - encoded < e.read => flushing
                      /\ \A i \in 0..(e.read - 1) :
                           e.pcm[i] = Due(e, i) \/ (failed /\ e.pcm[i] = 0)
    BY DEF InOrder
  <2>1. e.fed - encoded < e.read => flushing
    BY <1>1, <1>3 DEF IInv, InOrder
  <2>2. ASSUME NEW i \in 0..(e.read - 1)
        PROVE  e.pcm[i] = Due(e, i) \/ (failed /\ e.pcm[i] = 0)
    <3>1. inputBuffer[i] = Due(e, i) \/ (failed /\ inputBuffer[i] = 0)
      BY <1>1, <1>3 DEF IInv, InOrder, Due
    <3>2. i \in Index /\ nSamplesRead # 0
      BY <1>1, FrameLengths DEF IInv, TypeOK, Index
    <3>3. CASE InitFlags = InitAll
      <4>1. failed
        BY <3>2, <3>3 DEF IInv, InitAll, Flags
      <4> QED BY <1>1, <3>2, <3>3, <4>1 DEF Silence
    <3> QED BY <1>1, <3>1, <3>3
  <2> QED BY <2>1, <2>2
<1> QED BY <1>1, <1>6, <1>7

LEMMA ReadySound ==
  ASSUME IInv, InitFlags = {} \/ ~Refused(Now), NEW e, e = Ready(Now)
  PROVE  /\ Sound(e) /\ InOrder(e)
         /\ e.flags = {} /\ e.read = nSamplesRead /\ e.fed = fed
<1>1. Now.flags = InitFlags /\ Now.read = nSamplesRead /\ Now.fed = fed
  BY DEF Now
<1>2. CASE InitFlags = {}
  BY <1>1, <1>2 DEF Ready, IInv
<1>3. CASE InitFlags # {}
  BY <1>1, <1>3, InitializedSound DEF Ready
<1> QED BY <1>2, <1>3

\* Samples are taken behind those that wait, and never during a flush.
LEMMA TakenSound ==
  ASSUME TypeOK, NEW d, Sound(d), InOrder(d), d.flags = {},
         NEW n \in Int, n > 0 => ~flushing, NEW e, e = Taken(d, n)
  PROVE  /\ Sound(e) /\ InOrder(e)
         /\ e.flags = {} /\ e.read >= d.read /\ e.fed - d.fed = e.read - d.read
         /\ e.read > e.toRead => e.read = d.read
<1> DEFINE free == IF d.read < d.toRead THEN d.toRead - d.read ELSE 0
           new == IF n > 0 THEN Smaller(n, free) ELSE 0
<1>1. d \in EncoderState /\ d.read \in Nat /\ d.toRead \in Nat /\ d.fed \in Nat /\ encoded \in Nat
  BY FrameLengths DEF Sound, EncoderState, TypeOK
<1>2. new \in Nat /\ new <= free /\ (n <= 0 => new = 0)
  BY <1>1 DEF Smaller
<1>3. /\ e.flags = {} /\ e.read = d.read + new /\ e.fed = d.fed + new
      /\ e.toRead = d.toRead /\ e.delay = d.delay /\ e.zeros = d.zeros
      /\ e.pcm = [i \in Index |-> IF i \in d.read..(d.read + new - 1)
                                  THEN d.fed + 1 + i - d.read ELSE d.pcm[i]]
      /\ e = [flags |-> e.flags, pcm |-> e.pcm, read |-> e.read, toRead |-> e.toRead,
              zeros |-> e.zeros, delay |-> e.delay, fed |-> e.fed]
  BY <1>1 DEF Taken, EncoderState
<1> HIDE DEF new
<1>4. e.read <= LongestFrame /\ (e.read > e.toRead => e.read = d.read)
  BY <1>1, <1>2, <1>3, FrameLengths DEF EncoderState
<1>5. e.pcm \in [Index -> Nat]
  <2> SUFFICES ASSUME NEW i \in Index, i \in d.read..(d.read + new - 1)
               PROVE  d.fed + 1 + i - d.read \in Nat
    BY <1>1, <1>3 DEF EncoderState
  <2> QED BY <1>1, <1>2
<1>6. e \in EncoderState
  BY <1>1, <1>2, <1>3, <1>4, <1>5, FrameLengths DEF EncoderState
<1>7. (e.flags = {} /\ e.zeros > 0) => new = 0
  BY <1>2, <1>3 DEF Sound
<1>8. Sound(e)
  BY <1>1, <1>2, <1>3, <1>6, <1>7 DEF Sound
<1>9. InOrder(e)
  <2> SUFFICES ASSUME ~mixed
               PROVE  /\ e.fed - encoded < e.read => flushing
                      /\ \A i \in 0..(e.read - 1) :
                           e.pcm[i] = Due(e, i) \/ (failed /\ e.pcm[i] = 0)
    BY DEF InOrder
  <2>1. e.fed - encoded < e.read => flushing
    BY <1>1, <1>2, <1>3 DEF InOrder
  <2>2. ASSUME NEW i \in 0..(e.read - 1)
        PROVE  e.pcm[i] = Due(e, i) \/ (failed /\ e.pcm[i] = 0)
    <3>1. i \in Index
      BY <1>1, <1>2, <1>3, <1>4, FrameLengths DEF Index
    <3>2. CASE i < d.read
      <4>1. e.pcm[i] = d.pcm[i]
        BY <1>1, <1>2, <1>3, <3>1, <3>2
      <4>2. i \in 0..(d.read - 1)
        BY <1>1, <3>2
      <4>3. new > 0 => d.fed - encoded = d.read
        BY <1>1, <1>2 DEF InOrder, Sound
      <4>4. Due(e, i) = Due(d, i)
        <5>1. CASE new = 0
          BY <1>1, <1>3, <5>1 DEF Due
        <5>2. CASE new # 0
          BY <1>1, <1>2, <1>3, <3>2, <4>2, <4>3, <5>2 DEF Due
        <5> QED BY <5>1, <5>2
      <4> QED BY <4>1, <4>2, <4>4 DEF InOrder
    <3>3. CASE i >= d.read
      <4>1. e.pcm[i] = d.fed + 1 + i - d.read
        BY <1>1, <1>2, <1>3, <3>1, <3>3
      <4>2. d.fed - encoded = d.read
        BY <1>1, <1>2, <1>3, <3>3 DEF InOrder, Sound
      <4> QED BY <1>1, <1>2, <1>3, <3>3, <4>1, <4>2 DEF Due
    <3> QED BY <1>1, <3>2, <3>3
  <2> QED BY <2>1, <2>2
<1> QED BY <1>1, <1>2, <1>3, <1>4, <1>8, <1>9

LEMMA BecomesNow ==
  ASSUME NEW e \in EncoderState, Becomes(e)
  PROVE  Now' = e
<1>1. e = [flags |-> e.flags, pcm |-> e.pcm, read |-> e.read, toRead |-> e.toRead,
           zeros |-> e.zeros, delay |-> e.delay, fed |-> e.fed]
  BY DEF EncoderState
<1> QED BY <1>1 DEF Becomes, Now

-----------------------------------------------------------------------------
\* The course of a call that has not failed to initialize, up to its outcome.
Underway(e, n) ==
  /\ IInv /\ Sound(e) /\ InOrder(e)
  /\ e.flags = {} /\ e.read >= nSamplesRead
  /\ n \in Int /\ (n # -1 => ~flushing)
  /\ flushing' = (n = -1) /\ UNCHANGED userFramelength

LEMMA UnderwayTyped ==
  ASSUME NEW e, NEW n, Underway(e, n)
  PROVE  /\ e \in EncoderState
         /\ e.read \in 0..LongestFrame /\ e.toRead \in Supported /\ e.toRead \in Nat \ {0}
         /\ e.toRead <= LongestFrame
         /\ e.fed \in Nat /\ e.zeros \in Nat /\ e.delay \in Nat \ {0}
         /\ encoded \in Nat /\ silence \in Nat /\ encoded <= e.fed /\ e.fed - encoded <= e.read
         /\ e.pcm \in [Index -> Nat] /\ flushing' \in BOOLEAN /\ LongestFrame \in Nat
         /\ userFramelength' \in Lengths
BY FrameLengths DEF Underway, Sound, EncoderState, IInv, TypeOK

LEMMA NoFrameTyped == NoFrame \in [pcm : [Index -> Nat], length : Nat]
BY SilenceTyped DEF NoFrame

LEMMA NotCompleteKeepsInv ==
  ASSUME NEW e, NEW n, Underway(e, n), NotComplete(e, n)
  PROVE  IInv'
<1>1. Now' = e
  BY UnderwayTyped, BecomesNow DEF NotComplete
<1>2. /\ InitFlags' = {} /\ inputBuffer' = e.pcm /\ nSamplesRead' = e.read
      /\ nSamplesToRead' = e.toRead /\ nZerosAppended' = e.zeros /\ nDelay' = e.delay
      /\ fed' = e.fed /\ encoded' = encoded /\ silence' = silence /\ failed' = failed
      /\ troubles' = troubles /\ frame' = NoFrame
      /\ mixed' = (e.read # 0 /\ (mixed \/ e.read > e.toRead))
      /\ result' = (IF n = -1 THEN "Eof" ELSE "Ok")
      /\ e.read < e.toRead
  BY UnderwayTyped DEF NotComplete, Becomes, Left, Complete, Underway
<1>3. mixed => e.read # 0
  BY UnderwayTyped DEF Underway, IInv, TypeOK
<1>4. mixed' = mixed
  BY <1>2, <1>3, UnderwayTyped DEF Underway, IInv, TypeOK
<1>5. TypeOK'
  BY <1>2, UnderwayTyped, NoFrameTyped DEF TypeOK, Underway, IInv, Flags
<1>6. n = -1 => e.zeros >= e.delay /\ e.zeros > 0
  BY UnderwayTyped DEF NotComplete, EndsFlush
<1>7. EofMeansFlushed'
  <2> SUFFICES ASSUME n = -1
               PROVE  encoded = e.fed /\ e.read = 0 /\ silence >= e.delay
    BY <1>2 DEF EofMeansFlushed
  <2> QED BY <1>6, UnderwayTyped DEF Underway, Sound, Smaller
<1>8. flushing => flushing'
  BY DEF Underway
<1>9. Sound(Now)'
  <2>1. (e.flags = {} /\ e.zeros > 0) => e.read = 0 /\ flushing' /\ silence >= Smaller(e.zeros, e.delay)
    BY <1>8 DEF Underway, Sound
  <2> QED BY <1>1, <1>2, <2>1, UnderwayTyped DEF Sound, Underway
<1>10. InOrder(Now)'
  BY <1>1, <1>2, <1>4, <1>8 DEF InOrder, Underway, Due
<1>11. ~mixed' => nSamplesRead' <= nSamplesToRead'
                  /\ (nSamplesRead' # 0 /\ "OTHER" \in InitFlags' => failed')
  BY <1>2, UnderwayTyped
<1> QED BY <1>2, <1>3, <1>4, <1>5, <1>7, <1>9, <1>10, <1>11 DEF IInv

\* A call gets a frame to encode: what the frame holds, and how zeros were appended.
Framed(e, n, p) ==
  /\ Underway(e, n)
  /\ (n = -1 /\ ~EndsFlush(e, n)) \/ Complete(e)
  /\ p = Padded(e, n)

LEMMA FramedSound ==
  ASSUME NEW e, NEW n, NEW p, Framed(e, n, p)
  PROVE  /\ p \in EncoderState /\ p.flags = {}
         /\ p.toRead = e.toRead /\ p.fed = e.fed /\ p.delay = e.delay
         /\ p.read \in Nat /\ p.read <= LongestFrame /\ p.read >= e.read /\ p.read >= p.toRead
         /\ p.zeros \in Nat /\ p.pcm \in [Index -> Nat]
         /\ p.zeros > 0 => /\ p.read = p.toRead /\ flushing' /\ e.read < e.toRead
                           /\ p.zeros = e.zeros + e.toRead - e.read
         /\ p.read > e.read => n = -1 /\ p.read = p.toRead
         /\ \A i \in 0..(p.read - 1) :
              ~mixed => p.pcm[i] = Due(p, i) \/ (failed /\ p.pcm[i] = 0)
         /\ ~mixed /\ p.fed - encoded < p.read => flushing'
<1>1. n \in Int /\ (n = -1 <=> flushing') /\ (flushing => n = -1)
  BY DEF Framed, Underway
<1>2. Underway(e, n)
  BY DEF Framed
<1>3. CASE e.read >= e.toRead
  <2>1. p = e
    BY <1>3, <1>2, UnderwayTyped DEF Framed, Padded, Complete
  <2>2. p.zeros = 0
    <3>1. e.zeros \in Nat /\ e.read \in Nat /\ e.toRead \in Nat \ {0}
      BY <1>2, UnderwayTyped
    <3>2. e.zeros > 0 => e.read = 0
      BY <1>2 DEF Underway, Sound
    <3> QED BY <1>3, <2>1, <3>1, <3>2
  <2>3. \A i \in 0..(p.read - 1) :
          ~mixed => p.pcm[i] = Due(p, i) \/ (failed /\ p.pcm[i] = 0)
    BY <1>2, <2>1 DEF Underway, InOrder
  <2>4. ~mixed /\ p.fed - encoded < p.read => flushing'
    BY <1>1, <1>2, <2>1 DEF Underway, InOrder
  <2>5. e.flags = {}
    BY <1>2 DEF Underway
  <2> QED BY <1>2, <1>3, <2>1, <2>2, <2>3, <2>4, <2>5, UnderwayTyped
<1>4. CASE e.read < e.toRead
  <2>1. ~Complete(e)
    BY <1>2, <1>4, UnderwayTyped DEF Complete
  <2>2. n = -1 /\ p = Zeroed(e)
    BY <2>1 DEF Framed, Padded
  <2>3. e \in EncoderState /\ e.flags = {}
    BY <1>2, UnderwayTyped DEF Underway
  <2>4. /\ p.flags = e.flags /\ p.toRead = e.toRead /\ p.fed = e.fed /\ p.delay = e.delay
        /\ p.read = e.toRead /\ p.zeros = e.zeros + e.toRead - e.read
        /\ p.pcm = [i \in Index |-> IF i \in e.read..(e.toRead - 1) THEN 0 ELSE e.pcm[i]]
        /\ p = [flags |-> p.flags, pcm |-> p.pcm, read |-> p.read, toRead |-> p.toRead,
                zeros |-> p.zeros, delay |-> p.delay, fed |-> p.fed]
    BY <2>2, <2>3 DEF Zeroed, EncoderState
  <2>5. p.pcm \in [Index -> Nat]
    BY <2>3, <2>4 DEF EncoderState
  <2>6. p.zeros \in Nat
    BY <1>2, <1>4, <2>4, UnderwayTyped
  <2>7. p \in EncoderState
    BY <1>2, <2>3, <2>4, <2>5, <2>6, UnderwayTyped DEF EncoderState
  <2>8. \A i \in 0..(p.read - 1) :
          ~mixed => p.pcm[i] = Due(p, i) \/ (failed /\ p.pcm[i] = 0)
    <3> SUFFICES ASSUME NEW i \in 0..(p.read - 1), ~mixed
                 PROVE  p.pcm[i] = Due(p, i) \/ (failed /\ p.pcm[i] = 0)
      OBVIOUS
    <3>1. i \in Index
      BY <1>2, <2>4, UnderwayTyped DEF Index
    <3>2. CASE i < e.read
      <4>1. i \in 0..(e.read - 1)
        BY <1>2, <3>2, UnderwayTyped
      <4>2. p.pcm[i] = e.pcm[i] /\ Due(p, i) = Due(e, i)
        BY <1>2, <2>4, <3>1, <3>2, UnderwayTyped DEF Due
      <4> QED BY <1>2, <4>1, <4>2 DEF Underway, InOrder
    <3>3. CASE i >= e.read
      <4>1. p.pcm[i] = 0
        BY <1>2, <2>4, <3>1, <3>3, UnderwayTyped
      <4>2. Due(p, i) = 0
        BY <1>2, <2>4, <3>3, UnderwayTyped DEF Due
      <4> QED BY <4>1, <4>2
    <3> QED BY <1>2, <3>2, <3>3, UnderwayTyped
  <2> QED BY <1>1, <1>2, <1>4, <2>2, <2>3, <2>4, <2>5, <2>6, <2>7, <2>8, UnderwayTyped
<1> QED BY <1>2, <1>3, <1>4, UnderwayTyped

LEMMA EncodesKeepsInv ==
  ASSUME NEW e, NEW n, NEW p, Framed(e, n, p), NEW metadata \in BOOLEAN, Encodes(p, metadata)
  PROVE  IInv'
<1> DEFINE rest == Smaller(encoded + p.toRead, p.fed)
           q == [p EXCEPT !.read = @ - p.toRead,
                          !.flags = IF metadata THEN @ \cup {"TRANSPORT"} ELSE @]
<1>1. Underway(e, n)
  BY DEF Framed
<1>2. /\ p \in EncoderState /\ p.toRead \in Supported /\ p.toRead \in Nat \ {0}
      /\ p.fed \in Nat /\ p.read \in Nat
      /\ p.read >= p.toRead /\ p.delay \in Nat \ {0} /\ p.zeros \in Nat
      /\ encoded \in Nat /\ encoded <= p.fed /\ p.fed - encoded <= p.read /\ silence \in Nat
  BY <1>1, FramedSound, UnderwayTyped
<1>3. /\ q.flags \subseteq Flags /\ ("CONFIG" \notin q.flags) /\ ("OTHER" \notin q.flags)
      /\ q.pcm = p.pcm
      /\ q.read = p.read - p.toRead /\ q.toRead = p.toRead /\ q.zeros = p.zeros
      /\ q.delay = p.delay /\ q.fed = p.fed
      /\ q = [flags |-> q.flags, pcm |-> q.pcm, read |-> q.read, toRead |-> q.toRead,
              zeros |-> q.zeros, delay |-> q.delay, fed |-> q.fed]
  <2>1. q.flags = IF metadata THEN p.flags \cup {"TRANSPORT"} ELSE p.flags
    BY <1>2 DEF EncoderState
  <2>2. q.pcm = p.pcm /\ q.read = p.read - p.toRead /\ q.toRead = p.toRead /\ q.zeros = p.zeros
    BY <1>2 DEF EncoderState
  <2>3. q.delay = p.delay /\ q.fed = p.fed
    BY <1>2 DEF EncoderState
  <2>4. q = [flags |-> q.flags, pcm |-> q.pcm, read |-> q.read, toRead |-> q.toRead,
             zeros |-> q.zeros, delay |-> q.delay, fed |-> q.fed]
    <3> DEFINE flags == IF metadata THEN p.flags \cup {"TRANSPORT"} ELSE p.flags
    <3>1. q = [p EXCEPT !.read = p.read - p.toRead, !.flags = flags]
      OBVIOUS
    <3> HIDE DEF q, flags
    <3> QED BY <1>2, <3>1 DEF EncoderState
  <2>5. p.flags = {}
    BY FramedSound
  <2> HIDE DEF q
  <2> QED BY <2>1, <2>2, <2>3, <2>4, <2>5 DEF Flags
<1>4. Becomes(q)
  BY DEF Encodes
<1>5. q \in EncoderState
  <2>1. q.read \in 0..LongestFrame
    BY <1>1, <1>2, <1>3, UnderwayTyped, FramedSound
  <2>2. q.flags \in SUBSET Flags
    BY <1>3
  <2> QED BY <1>2, <1>3, <2>1, <2>2 DEF EncoderState
<1> HIDE DEF q
<1>6. Now' = q
  BY <1>4, <1>5, BecomesNow
<1>7. /\ InitFlags' = q.flags /\ inputBuffer' = p.pcm /\ nSamplesRead' = p.read - p.toRead
      /\ nSamplesToRead' = p.toRead /\ nZerosAppended' = p.zeros /\ nDelay' = p.delay
      /\ fed' = p.fed /\ encoded' = rest /\ failed' = FALSE /\ result' = "Encoded"
      /\ frame' = [pcm |-> p.pcm, length |-> p.toRead]
      /\ silence' = Smaller(p.delay, IF rest = encoded THEN silence + p.toRead
                                     ELSE encoded + p.toRead - rest)
      /\ mixed' = (nSamplesRead' # 0 /\ (mixed \/ p.read > p.toRead))
      /\ troubles' \in 0..MaxTroubles
  <2>1. /\ InitFlags' = q.flags /\ inputBuffer' = p.pcm /\ nSamplesRead' = p.read - p.toRead
        /\ nSamplesToRead' = p.toRead /\ nZerosAppended' = p.zeros /\ nDelay' = p.delay
        /\ fed' = p.fed
    BY <1>3, <1>4 DEF Becomes
  <2>2. troubles' \in 0..MaxTroubles
    <3>1. troubles \in 0..MaxTroubles
      BY <1>1 DEF Underway, IInv, TypeOK
    <3>2. troubles' = troubles \/ (troubles < MaxTroubles /\ troubles' = troubles + 1)
      BY DEF Encodes, Trouble
    <3> QED BY <3>1, <3>2, EncoderAssumption
  <2>3. /\ encoded' = rest /\ failed' = FALSE /\ result' = "Encoded"
        /\ frame' = [pcm |-> p.pcm, length |-> p.toRead]
        /\ silence' = Smaller(p.delay, IF rest = encoded THEN silence + p.toRead
                                       ELSE encoded + p.toRead - rest)
        /\ mixed' = (nSamplesRead' # 0 /\ (mixed \/ p.read > p.toRead))
    BY DEF Encodes, Left
  <2> QED BY <2>1, <2>2, <2>3
<1>8. rest \in Nat /\ encoded <= rest /\ rest <= p.fed /\ rest - encoded <= p.toRead
      /\ p.fed - rest <= p.read - p.toRead
  BY <1>2 DEF Smaller
<1>9. silence' \in Nat
  BY <1>2, <1>7, <1>8 DEF Smaller
<1>10. TypeOK'
  <2>1. frame' \in [pcm : [Index -> Nat], length : Nat]
    BY <1>2, <1>7, FramedSound
  <2>2. nSamplesRead' \in 0..LongestFrame
    BY <1>2, <1>3, <1>5, <1>7 DEF EncoderState
  <2>3. encoded' \in 0..fed'
    BY <1>2, <1>7, <1>8
  <2>4. mixed' \in BOOLEAN
    BY <1>7
  <2>5. /\ InitFlags' \subseteq Flags /\ inputBuffer' \in [Index -> Nat]
    BY <1>3, <1>5, <1>7, FramedSound DEF EncoderState
  <2> QED BY <1>1, <1>2, <1>7, <1>9, <2>1, <2>2, <2>3, <2>4, <2>5, UnderwayTyped DEF TypeOK
<1>11. p.zeros > 0 => silence' >= Smaller(p.zeros, p.delay) /\ flushing' /\ p.read - p.toRead = 0
  <2> SUFFICES ASSUME p.zeros > 0
               PROVE  silence' >= Smaller(p.zeros, p.delay) /\ flushing' /\ p.read - p.toRead = 0
    OBVIOUS
  <2>1. /\ p.read = p.toRead /\ flushing' /\ e.read < e.toRead
        /\ p.zeros = e.zeros + e.toRead - e.read /\ p.toRead = e.toRead /\ p.fed = e.fed
        /\ p.delay = e.delay
    BY FramedSound
  <2>2. /\ e.zeros \in Nat /\ e.read \in Nat /\ e.fed - encoded <= e.read
        /\ (e.zeros > 0 => e.read = 0 /\ silence >= Smaller(e.zeros, e.delay))
    <3>1. e.zeros \in Nat /\ e.read \in Nat /\ e.fed - encoded <= e.read
      BY <1>1, UnderwayTyped
    <3>2. e.zeros > 0 => e.read = 0 /\ silence >= Smaller(e.zeros, e.delay)
      BY <1>1 DEF Underway, Sound
    <3> QED BY <3>1, <3>2
  <2>3. rest = p.fed
    BY <1>2, <2>1, <2>2 DEF Smaller
  <2> HIDE DEF rest
  <2>4. CASE rest = encoded
    BY <1>2, <1>7, <2>1, <2>2, <2>4 DEF Smaller
  <2>5. CASE rest # encoded
    <3>1. e.zeros = 0
      BY <1>2, <2>1, <2>2, <2>3, <2>5
    <3> QED BY <1>2, <1>7, <2>1, <2>2, <2>3, <2>5, <3>1 DEF Smaller
  <2> QED BY <2>1, <2>4, <2>5
<1> HIDE DEF rest
<1>12. Sound(Now)'
  <2>1. p.toRead > 0 /\ p.delay > 0
    BY <1>2
  <2> QED BY <1>2, <1>3, <1>5, <1>6, <1>7, <1>8, <1>11, <2>1 DEF Sound
<1>13. ~mixed' => nSamplesRead' = 0
  <2>1. CASE p.read > p.toRead
    BY <1>7, <2>1
  <2>2. CASE p.read = p.toRead
    BY <1>2, <1>7, <2>2
  <2> QED BY <1>2, <2>1, <2>2
<1>14. InOrder(Now)'
  <2> SUFFICES ASSUME ~mixed'
               PROVE  /\ Now.fed' - encoded' < Now.read' => flushing'
                      /\ \A i \in 0..(Now.read' - 1) :
                           Now.pcm[i]' = Due(Now, i)' \/ (failed' /\ Now.pcm[i]' = 0)
    BY DEF InOrder
  <2>1. Now.read' = 0 /\ Now.fed' = p.fed
    BY <1>2, <1>3, <1>6, <1>7, <1>13
  <2> QED BY <1>2, <1>7, <1>8, <2>1
<1>15. EofMeansFlushed'
  BY <1>7 DEF EofMeansFlushed
<1>16. mixed' => nSamplesRead' # 0
  BY <1>7
<1>17. nSamplesToRead' \in Nat
  BY <1>2, <1>7
<1> QED BY <1>10, <1>12, <1>13, <1>14, <1>15, <1>16, <1>17 DEF IInv

LEMMA OutputTooSmallKeepsInv ==
  ASSUME NEW e, NEW n, NEW p, Framed(e, n, p), OutputTooSmall(p)
  PROVE  IInv'
<1> DEFINE rest == Smaller(encoded + p.toRead, p.fed)
           q == [p EXCEPT !.read = @ - p.toRead, !.flags = InitAll]
<1>1. Underway(e, n)
  BY DEF Framed
<1>2. /\ p \in EncoderState /\ p.toRead \in Supported /\ p.toRead \in Nat \ {0}
      /\ p.fed \in Nat /\ p.read \in Nat /\ p.read <= LongestFrame
      /\ p.read >= p.toRead /\ p.delay \in Nat \ {0} /\ p.zeros \in Nat
      /\ encoded \in Nat /\ encoded <= p.fed /\ p.fed - encoded <= p.read
      /\ LongestFrame \in Nat
  BY <1>1, FramedSound, UnderwayTyped
<1>3. /\ q.flags = InitAll /\ q.pcm = p.pcm
      /\ q.read = p.read - p.toRead /\ q.toRead = p.toRead /\ q.zeros = p.zeros
      /\ q.delay = p.delay /\ q.fed = p.fed
      /\ q = [flags |-> q.flags, pcm |-> q.pcm, read |-> q.read, toRead |-> q.toRead,
              zeros |-> q.zeros, delay |-> q.delay, fed |-> q.fed]
  <2>1. q.flags = InitAll /\ q.pcm = p.pcm /\ q.read = p.read - p.toRead
    BY <1>2 DEF EncoderState
  <2>2. q.toRead = p.toRead /\ q.zeros = p.zeros /\ q.delay = p.delay /\ q.fed = p.fed
    BY <1>2 DEF EncoderState
  <2>3. q = [flags |-> q.flags, pcm |-> q.pcm, read |-> q.read, toRead |-> q.toRead,
             zeros |-> q.zeros, delay |-> q.delay, fed |-> q.fed]
    <3>1. q = [p EXCEPT !.read = p.read - p.toRead, !.flags = InitAll]
      OBVIOUS
    <3> HIDE DEF q
    <3> QED BY <1>2, <3>1 DEF EncoderState
  <2> QED BY <2>1, <2>2, <2>3
<1>4. Becomes(q)
  BY DEF OutputTooSmall
<1>5. q \in EncoderState
  BY <1>2, <1>3 DEF EncoderState, InitAll
<1> HIDE DEF q
<1>6. Now' = q
  BY <1>4, <1>5, BecomesNow
<1>7. /\ InitFlags' = InitAll /\ inputBuffer' = p.pcm /\ nSamplesRead' = p.read - p.toRead
      /\ nSamplesToRead' = p.toRead /\ nZerosAppended' = p.zeros /\ nDelay' = p.delay
      /\ fed' = p.fed /\ encoded' = rest /\ failed' = FALSE /\ result' = "EncodeError"
      /\ frame' = NoFrame /\ silence' = 0
      /\ mixed' = (nSamplesRead' # 0 /\ (mixed \/ p.read > p.toRead))
      /\ troubles' \in 0..MaxTroubles
  <2>1. /\ InitFlags' = InitAll /\ inputBuffer' = p.pcm /\ nSamplesRead' = p.read - p.toRead
        /\ nSamplesToRead' = p.toRead /\ nZerosAppended' = p.zeros /\ nDelay' = p.delay
        /\ fed' = p.fed
    BY <1>3, <1>4 DEF Becomes
  <2>2. troubles' \in 0..MaxTroubles
    <3>1. troubles \in 0..MaxTroubles
      BY <1>1 DEF Underway, IInv, TypeOK
    <3> QED BY <3>1, EncoderAssumption DEF OutputTooSmall, Trouble
  <2>3. /\ encoded' = rest /\ failed' = FALSE /\ result' = "EncodeError"
        /\ frame' = NoFrame /\ silence' = 0
        /\ mixed' = (nSamplesRead' # 0 /\ (mixed \/ p.read > p.toRead))
    BY DEF OutputTooSmall, Left
  <2> QED BY <2>1, <2>2, <2>3
<1>8. rest \in Nat /\ rest <= p.fed /\ p.fed - rest <= p.read - p.toRead
  BY <1>2 DEF Smaller
<1> HIDE DEF rest
<1>9. TypeOK'
  <2>1. encoded' \in 0..fed'
    BY <1>2, <1>7, <1>8
  <2>2. nSamplesRead' \in 0..LongestFrame /\ mixed' \in BOOLEAN
    BY <1>2, <1>7
  <2>3. InitFlags' \subseteq Flags /\ inputBuffer' \in [Index -> Nat]
    BY <1>7, FramedSound DEF InitAll
  <2> QED BY <1>1, <1>2, <1>7, <2>1, <2>2, <2>3, UnderwayTyped, NoFrameTyped DEF TypeOK
<1>10. Sound(Now)'
  <2>1. q.flags # {} /\ "CONFIG" \in q.flags
    BY <1>3 DEF InitAll, Flags
  <2> QED BY <1>2, <1>3, <1>5, <1>6, <1>7, <1>8, <2>1 DEF Sound
<1>11. ~mixed' => nSamplesRead' = 0
  <2>1. CASE p.read > p.toRead
    BY <1>7, <2>1
  <2>2. CASE p.read = p.toRead
    BY <1>2, <1>7, <2>2
  <2> QED BY <1>2, <2>1, <2>2
<1>12. InOrder(Now)'
  <2> SUFFICES ASSUME ~mixed'
               PROVE  /\ Now.fed' - encoded' < Now.read' => flushing'
                      /\ \A i \in 0..(Now.read' - 1) :
                           Now.pcm[i]' = Due(Now, i)' \/ (failed' /\ Now.pcm[i]' = 0)
    BY DEF InOrder
  <2>1. Now.read' = 0 /\ Now.fed' = p.fed
    BY <1>2, <1>3, <1>6, <1>7, <1>11
  <2> QED BY <1>2, <1>7, <1>8, <2>1
<1>13. EofMeansFlushed'
  BY <1>7 DEF EofMeansFlushed
<1>14. (mixed' => nSamplesRead' # 0) /\ nSamplesToRead' \in Nat
  BY <1>2, <1>7
<1> QED BY <1>9, <1>10, <1>11, <1>12, <1>13, <1>14 DEF IInv

LEMMA ModuleFailsKeepsInv ==
  ASSUME NEW e, NEW n, NEW p, Framed(e, n, p), ModuleFails(p)
  PROVE  IInv'
<1> DEFINE q == [p EXCEPT !.flags = InitAll]
<1>1. Underway(e, n)
  BY DEF Framed
<1>2. /\ p \in EncoderState /\ p.toRead \in Supported /\ p.toRead \in Nat \ {0}
      /\ p.fed \in Nat /\ p.read \in Nat /\ p.read <= LongestFrame
      /\ p.read >= p.toRead /\ p.delay \in Nat \ {0} /\ p.zeros \in Nat
      /\ encoded \in Nat /\ encoded <= p.fed /\ p.fed - encoded <= p.read
      /\ LongestFrame \in Nat
  BY <1>1, FramedSound, UnderwayTyped
<1>3. /\ q.flags = InitAll /\ q.pcm = p.pcm
      /\ q.read = p.read /\ q.toRead = p.toRead /\ q.zeros = p.zeros
      /\ q.delay = p.delay /\ q.fed = p.fed
      /\ q = [flags |-> q.flags, pcm |-> q.pcm, read |-> q.read, toRead |-> q.toRead,
              zeros |-> q.zeros, delay |-> q.delay, fed |-> q.fed]
  BY <1>2 DEF EncoderState
<1>4. Becomes(q)
  BY DEF ModuleFails
<1>5. q \in EncoderState
  BY <1>2, <1>3 DEF EncoderState, InitAll
<1> HIDE DEF q
<1>6. Now' = q
  BY <1>4, <1>5, BecomesNow
<1>7. /\ InitFlags' = InitAll /\ inputBuffer' = p.pcm /\ nSamplesRead' = p.read
      /\ nSamplesToRead' = p.toRead /\ nZerosAppended' = p.zeros /\ nDelay' = p.delay
      /\ fed' = p.fed /\ encoded' = encoded /\ failed' = TRUE /\ result' = "EncodeError"
      /\ frame' = NoFrame /\ silence' = silence
      /\ mixed' = (nSamplesRead' # 0 /\ (mixed \/ p.read > p.toRead))
      /\ troubles' \in 0..MaxTroubles
  <2>1. /\ InitFlags' = InitAll /\ inputBuffer' = p.pcm /\ nSamplesRead' = p.read
        /\ nSamplesToRead' = p.toRead /\ nZerosAppended' = p.zeros /\ nDelay' = p.delay
        /\ fed' = p.fed
    BY <1>3, <1>4 DEF Becomes
  <2>2. troubles' \in 0..MaxTroubles
    <3>1. troubles \in 0..MaxTroubles
      BY <1>1 DEF Underway, IInv, TypeOK
    <3> QED BY <3>1, EncoderAssumption DEF ModuleFails, Trouble
  <2>3. /\ encoded' = encoded /\ failed' = TRUE /\ result' = "EncodeError"
        /\ frame' = NoFrame /\ silence' = silence
        /\ mixed' = (nSamplesRead' # 0 /\ (mixed \/ p.read > p.toRead))
    BY DEF ModuleFails, Left
  <2> QED BY <2>1, <2>2, <2>3
<1>8. TypeOK'
  <2>1. encoded' \in 0..fed' /\ nSamplesRead' \in 0..LongestFrame /\ mixed' \in BOOLEAN
    BY <1>2, <1>7
  <2>2. InitFlags' \subseteq Flags /\ inputBuffer' \in [Index -> Nat]
    BY <1>7, FramedSound DEF InitAll
  <2> QED BY <1>1, <1>2, <1>7, <2>1, <2>2, UnderwayTyped, NoFrameTyped DEF TypeOK
<1>9. Sound(Now)'
  <2>1. q.flags # {} /\ "CONFIG" \in q.flags
    BY <1>3 DEF InitAll, Flags
  <2> QED BY <1>2, <1>3, <1>5, <1>6, <1>7, <2>1 DEF Sound
<1>10. ~mixed' => ~mixed /\ p.read = p.toRead
  <2>1. p.read # 0
    BY <1>2
  <2>2. mixed' = (mixed \/ p.read > p.toRead)
    BY <1>7, <2>1
  <2>3. CASE p.read > p.toRead
    BY <2>2, <2>3
  <2>4. CASE p.read = p.toRead /\ mixed
    BY <2>2, <2>4
  <2> QED BY <1>2, <2>3, <2>4
<1>11. InOrder(Now)'
  <2> SUFFICES ASSUME ~mixed'
               PROVE  /\ p.fed - encoded < p.read => flushing'
                      /\ \A i \in 0..(p.read - 1) :
                           p.pcm[i] = Due(p, i) \/ (failed' /\ p.pcm[i] = 0)
    BY <1>3, <1>6, <1>7 DEF InOrder, Due
  <2> QED BY <1>7, <1>10, FramedSound
<1>12. EofMeansFlushed'
  BY <1>7 DEF EofMeansFlushed
<1>13. (mixed' => nSamplesRead' # 0) /\ (~mixed' => nSamplesRead' <= nSamplesToRead')
  BY <1>2, <1>7, <1>10
<1> QED BY <1>7, <1>8, <1>9, <1>11, <1>12, <1>13 DEF IInv

LEMMA InitFailsKeepsInv ==
  ASSUME IInv, InitFails(Now), flushing => flushing', flushing' \in BOOLEAN,
         UNCHANGED userFramelength
  PROVE  IInv'
<1>1. /\ Now.flags = InitFlags /\ Now.pcm = inputBuffer /\ Now.read = nSamplesRead
      /\ Now.toRead = nSamplesToRead /\ Now.delay = nDelay /\ Now.fed = fed
      /\ Now \in EncoderState
  BY DEF Now, IInv, Sound
<1>2. PICK q : /\ Becomes(q)
               /\ \/ q = [Now EXCEPT !.zeros = 0] /\ UNCHANGED troubles
                  \/ q = Cleared(Now) /\ ~Refused(Now) /\ Trouble
  BY DEF InitFails
<1>3. /\ q.flags = InitFlags /\ q.read = nSamplesRead /\ q.toRead = nSamplesToRead
      /\ q.zeros = 0 /\ q.fed = fed
      /\ q.pcm \in {inputBuffer, Silence}
      /\ q.pcm # inputBuffer => InitFlags = InitAll
      /\ q.delay = nDelay \/ (q.delay = Delay[userFramelength] /\ userFramelength \in Supported)
      /\ q = [flags |-> q.flags, pcm |-> q.pcm, read |-> q.read, toRead |-> q.toRead,
              zeros |-> q.zeros, delay |-> q.delay, fed |-> q.fed]
  <2>1. CASE q = [Now EXCEPT !.zeros = 0]
    BY <2>1 DEF Now
  <2>2. CASE q = Cleared(Now) /\ ~Refused(Now)
    BY <2>2 DEF Now, Cleared, Refused
  <2> QED BY <1>2, <2>1, <2>2
<1>4. q.delay \in Nat /\ (nDelay > 0 => q.delay > 0)
  BY <1>3, FrameLengths DEF IInv, TypeOK
<1>5. q \in EncoderState
  BY <1>3, <1>4, SilenceTyped DEF EncoderState, IInv, TypeOK
<1>6. Now' = q
  BY <1>2, <1>5, BecomesNow
<1>7. /\ InitFlags' = InitFlags /\ InitFlags # {} /\ inputBuffer' = q.pcm
      /\ nSamplesRead' = nSamplesRead /\ nSamplesToRead' = nSamplesToRead
      /\ nZerosAppended' = 0 /\ nDelay' = q.delay /\ fed' = fed
      /\ result' = "InitError" /\ frame' = NoFrame /\ encoded' = encoded
      /\ silence' = silence /\ failed' = failed /\ mixed' = mixed
  BY <1>1, <1>2, <1>3 DEF InitFails, Becomes
<1>8. troubles' \in 0..MaxTroubles
  BY <1>2, EncoderAssumption DEF Trouble, IInv, TypeOK
<1>9. TypeOK'
  BY <1>3, <1>4, <1>7, <1>8, SilenceTyped, NoFrameTyped DEF IInv, TypeOK
<1>10. Sound(Now)'
  BY <1>1, <1>3, <1>4, <1>5, <1>6, <1>7 DEF IInv, Sound
<1>11. InOrder(Now)'
  <2> SUFFICES ASSUME ~mixed
               PROVE  /\ fed - encoded < nSamplesRead => flushing'
                      /\ \A i \in 0..(nSamplesRead - 1) :
                           q.pcm[i] = Due(Now, i) \/ (failed /\ q.pcm[i] = 0)
    BY <1>1, <1>3, <1>6, <1>7 DEF InOrder, Due
  <2>1. fed - encoded < nSamplesRead => flushing'
    BY <1>1 DEF IInv, InOrder
  <2>2. ASSUME NEW i \in 0..(nSamplesRead - 1)
        PROVE  q.pcm[i] = Due(Now, i) \/ (failed /\ q.pcm[i] = 0)
    <3>1. i \in Index /\ nSamplesRead # 0
      BY FrameLengths DEF IInv, TypeOK, Index
    <3>2. CASE q.pcm = inputBuffer
      BY <1>1, <3>2 DEF IInv, InOrder
    <3>3. CASE q.pcm # inputBuffer
      <4>1. failed
        BY <1>3, <3>1, <3>3 DEF IInv, InitAll, Flags
      <4> QED BY <1>3, <3>1, <3>3, <4>1 DEF Silence
    <3> QED BY <3>2, <3>3
  <2> QED BY <2>1, <2>2
<1>12. EofMeansFlushed'
  BY <1>7 DEF EofMeansFlushed
<1> QED BY <1>7, <1>9, <1>10, <1>11, <1>12 DEF IInv

LEMMA ReinitializeKeepsInv ==
  ASSUME IInv, Reinitialize
  PROVE  IInv'
<1>1. CASE InitFails(Now)
  BY <1>1, InitFailsKeepsInv DEF Reinitialize, IInv, TypeOK
<1>2. CASE ~InitFails(Now)
  <2> DEFINE q == Initialized(Now)
  <2>1. /\ Sound(q) /\ InOrder(q)
        /\ q.flags = {} /\ q.read = nSamplesRead /\ q.fed = fed /\ q.zeros = 0
    BY <1>2, InitializedSound DEF Reinitialize
  <2>2. Becomes(q) /\ Left(q, encoded)
    BY <1>2 DEF Reinitialize
  <2> HIDE DEF q
  <2>3. Now' = q
    BY <2>1, <2>2, BecomesNow DEF Sound
  <2>4. /\ InitFlags' = {} /\ inputBuffer' = q.pcm /\ nSamplesRead' = nSamplesRead
        /\ nSamplesToRead' = q.toRead /\ nZerosAppended' = 0 /\ nDelay' = q.delay
        /\ fed' = fed /\ encoded' = encoded
        /\ mixed' = (nSamplesRead # 0 /\ (mixed \/ nSamplesRead > q.toRead))
    BY <2>1, <2>2 DEF Becomes, Left
  <2>5. /\ result' = "Ok" /\ frame' = NoFrame /\ silence' = silence /\ failed' = failed
        /\ troubles' = troubles /\ userFramelength' = userFramelength /\ flushing' = flushing
    BY <1>2 DEF Reinitialize
  <2>6. /\ q \in EncoderState /\ q.toRead \in Supported \cup {0} /\ q.toRead \in Nat
        /\ q.delay \in Nat /\ q.pcm \in [Index -> Nat]
    BY <2>1, FrameLengths DEF Sound, EncoderState
  <2>7. /\ mixed' \in BOOLEAN /\ (mixed' => nSamplesRead' # 0)
        /\ ~mixed' => ~mixed /\ nSamplesRead <= q.toRead
    <3>1. nSamplesRead \in Nat /\ mixed \in BOOLEAN /\ (mixed => nSamplesRead # 0)
      BY FrameLengths DEF IInv, TypeOK
    <3>2. CASE nSamplesRead = 0
      BY <2>4, <2>6, <3>1, <3>2
    <3>3. CASE nSamplesRead # 0 /\ nSamplesRead > q.toRead
      BY <2>4, <3>3
    <3>4. CASE nSamplesRead # 0 /\ nSamplesRead <= q.toRead
      <4>1. mixed' = mixed
        BY <2>4, <2>6, <3>1, <3>4
      <4> QED BY <2>4, <3>1, <3>4, <4>1
    <3> QED BY <2>6, <3>1, <3>2, <3>3, <3>4
  <2>8. TypeOK'
    BY <2>4, <2>5, <2>6, <2>7, NoFrameTyped DEF IInv, TypeOK
  <2>9. Sound(Now)'
    BY <2>1, <2>3, <2>4, <2>5 DEF Sound
  <2>10. InOrder(Now)'
    BY <2>1, <2>3, <2>4, <2>5, <2>7 DEF InOrder, Due
  <2>11. EofMeansFlushed'
    BY <2>5 DEF EofMeansFlushed
  <2> QED BY <2>4, <2>7, <2>8, <2>9, <2>10, <2>11 DEF IInv
<1> QED BY <1>1, <1>2

-----------------------------------------------------------------------------
\* Parameters ask for an initialization, and may empty the buffer.
LEMMA SetsParamKeepsInv ==
  ASSUME IInv, SetsParam,
         Discard \/ (Keep /\ ("OTHER" \in InitFlags' <=> "OTHER" \in InitFlags)),
         InitFlags' # {}, InitFlags' \subseteq Flags, userFramelength' \in Lengths,
         "CONFIG" \notin InitFlags' => nSamplesToRead > 0
  PROVE  IInv'
<1>1. /\ result' = "None" /\ frame' = NoFrame /\ inputBuffer' = inputBuffer
      /\ nSamplesToRead' = nSamplesToRead /\ nDelay' = nDelay
      /\ nZerosAppended' = nZerosAppended /\ fed' = fed /\ silence' = silence
  BY DEF SetsParam, settings
<1>2. troubles' \in 0..MaxTroubles
  BY EncoderAssumption DEF SetsParam, Trouble, IInv, TypeOK
<1>3. /\ Now'.flags = InitFlags' /\ Now'.read = nSamplesRead' /\ Now'.pcm = inputBuffer
      /\ Now'.toRead = nSamplesToRead /\ Now'.delay = nDelay /\ Now'.fed = fed
      /\ Now.read = nSamplesRead /\ Now.pcm = inputBuffer /\ Now.toRead = nSamplesToRead
      /\ Now.delay = nDelay /\ Now.fed = fed
  BY <1>1 DEF Now
<1>4. /\ nSamplesRead' \in {0, nSamplesRead} /\ encoded' \in 0..fed
      /\ failed' \in BOOLEAN /\ mixed' \in BOOLEAN /\ flushing' \in BOOLEAN
      /\ fed - encoded' <= nSamplesRead'
      /\ Discard => nSamplesRead' = 0 /\ encoded' = fed /\ ~mixed'
      /\ Keep => UNCHANGED <<nSamplesRead, encoded, failed, mixed, flushing>>
  <2>1. /\ nSamplesRead \in Nat /\ encoded \in 0..fed /\ fed \in Nat /\ failed \in BOOLEAN
        /\ mixed \in BOOLEAN /\ flushing \in BOOLEAN /\ fed - encoded <= nSamplesRead
    BY <1>3, FrameLengths DEF IInv, TypeOK, Sound
  <2>2. CASE Keep
    <3>1. ~Discard \/ (nSamplesRead = 0 /\ encoded = fed /\ ~mixed)
      BY <2>2 DEF Keep, Discard
    <3> QED BY <2>1, <2>2, <3>1 DEF Keep
  <2>3. CASE Discard
    <3>1. fed - encoded' = 0 /\ encoded' \in 0..fed /\ ~mixed' /\ nSamplesRead' = 0
      BY <2>1, <2>3 DEF Discard
    <3>2. failed' \in BOOLEAN /\ mixed' \in BOOLEAN /\ flushing' \in BOOLEAN /\ encoded' = fed
      BY <2>3 DEF Discard
    <3>3. Keep => UNCHANGED <<nSamplesRead, encoded, failed, mixed, flushing>>
      BY DEF Keep
    <3> QED BY <2>1, <3>1, <3>2, <3>3
  <2> QED BY <2>2, <2>3
<1>5. nSamplesRead' \in 0..LongestFrame /\ nSamplesToRead \in Nat
  BY <1>4, FrameLengths DEF IInv, TypeOK
<1>6. TypeOK'
  BY <1>1, <1>2, <1>4, <1>5, NoFrameTyped DEF IInv, TypeOK
<1>7. Now' \in EncoderState
  BY <1>1, <1>4, <1>5, <1>6 DEF Now, EncoderState, TypeOK
<1>8. Sound(Now)'
  <2>1. nSamplesToRead > 0 => nDelay > 0
    BY <1>3 DEF IInv, Sound
  <2> QED BY <1>1, <1>3, <1>4, <1>7, <2>1 DEF Sound
<1>9. InOrder(Now)'
  <2>1. CASE Keep
    BY <1>1, <1>3, <1>4, <2>1 DEF IInv, InOrder, Due
  <2>2. CASE Discard
    <3>1. Now'.read = 0 /\ Now'.fed = encoded' /\ encoded' \in Nat
      BY <1>3, <1>4, <2>2 DEF IInv, TypeOK
    <3>2. ~(Now'.fed - encoded' < Now'.read)
      <4>1. \A k \in Nat : ~(k - k < 0)
        OBVIOUS
      <4> QED BY <3>1, <4>1
    <3>3. 0..(Now'.read - 1) = {}
      BY <3>1
    <3> QED BY <3>2, <3>3 DEF InOrder
  <2> QED BY <2>1, <2>2
<1>10. EofMeansFlushed'
  BY <1>1 DEF EofMeansFlushed
<1>11. /\ mixed' => nSamplesRead' # 0
       /\ ~mixed' => /\ nSamplesRead' <= nSamplesToRead'
                     /\ nSamplesRead' # 0 /\ "OTHER" \in InitFlags' => failed'
  <2>1. CASE Keep /\ ("OTHER" \in InitFlags' <=> "OTHER" \in InitFlags)
    BY <1>1, <1>4, <2>1 DEF IInv
  <2>2. CASE Discard
    BY <1>1, <1>4, <1>5, <2>2
  <2> QED BY <2>1, <2>2
<1> QED BY <1>6, <1>8, <1>9, <1>10, <1>11 DEF IInv

-----------------------------------------------------------------------------
\* A call fails to initialize, has nothing to encode, or has a frame.
LEMMA EncodeCases ==
  ASSUME ~Resumes, IInv, NEW n \in -1..MaxSamples, Encode(n)
  PROVE  \/ /\ InitFails(Now) /\ (flushing => flushing') /\ flushing' \in BOOLEAN
            /\ UNCHANGED userFramelength
         \/ \E e : Underway(e, n) /\ NotComplete(e, n)
         \/ \E e, p : /\ Framed(e, n, p)
                      /\ \/ \E metadata \in BOOLEAN : Encodes(p, metadata)
                         \/ ModuleFails(p) \/ OutputTooSmall(p)
<1> DEFINE d == Ready(Now)
           e == Taken(d, n)
           p == Padded(e, n)
<1>1. n \in Int /\ (n # -1 => ~flushing) /\ (flushing => n = -1)
  BY EncoderAssumption DEF Encode
<1>2. flushing' = (n = -1) /\ userFramelength' = userFramelength
  BY DEF Encode
<1>3. CASE InitFails(Now)
  BY <1>1, <1>2, <1>3
<1>4. CASE ~InitFails(Now)
  <2>1. InitFlags = {} \/ ~Refused(Now)
    BY <1>4 DEF Encode
  <2>2. Sound(d) /\ InOrder(d) /\ d.flags = {} /\ d.read = nSamplesRead
    BY <2>1, ReadySound
  <2>3. n > 0 => ~flushing
    BY <1>1
  <2>4. Sound(e) /\ InOrder(e) /\ e.flags = {} /\ e.read >= d.read
    <3> HIDE DEF d
    <3> QED BY <1>1, <2>2, <2>3, TakenSound DEF IInv
  <2>5. Underway(e, n)
    BY <1>1, <1>2, <2>2, <2>4 DEF Underway
  <2>6. \/ NotComplete(e, n)
        \/ /\ (n = -1 /\ ~EndsFlush(e, n)) \/ Complete(e)
           /\ \/ \E metadata \in BOOLEAN : Encodes(p, metadata)
              \/ ModuleFails(p) \/ OutputTooSmall(p)
    BY <1>4 DEF Encode
  <2> HIDE DEF e, p
  <2>7. (n = -1 /\ ~EndsFlush(e, n)) \/ Complete(e) => Framed(e, n, p)
    BY <2>5 DEF Framed, p
  <2> QED BY <2>5, <2>6, <2>7
<1> QED BY <1>3, <1>4

LEMMA InitSound ==
  ASSUME Init
  PROVE  IInv
<1>1. TypeOK
  <2>1. /\ userFramelength \in Lengths /\ InitFlags \subseteq Flags
        /\ 0 \in 0..LongestFrame /\ 0 \in 0..MaxTroubles /\ 0 \in 0..0
    BY EncoderAssumption, FrameLengths DEF Init, InitAll
  <2> QED BY <2>1, SilenceTyped, NoFrameTyped DEF Init, TypeOK
<1>2. EofMeansFlushed
  BY DEF Init, EofMeansFlushed
<1>3. Sound(Now)
  <2>1. Now \in EncoderState
    BY <1>1 DEF TypeOK, Now, EncoderState
  <2> QED BY <2>1 DEF Init, Sound, Now, InitAll, Flags
<1>4. InOrder(Now)
  <2>1. Now.read = 0 /\ Now.fed = 0 /\ encoded = 0
    BY DEF Init, Now
  <2>2. 0..(Now.read - 1) = {} /\ ~(Now.fed - encoded < Now.read)
    BY <2>1
  <2> QED BY <2>2 DEF InOrder
<1> QED BY <1>1, <1>2, <1>3, <1>4 DEF Init, IInv

LEMMA NextKeepsInv ==
  ASSUME ~Resumes, IInv, [Next]_vars
  PROVE  IInv'
<1>1. CASE UNCHANGED vars
  BY <1>1 DEF vars, buffer, settings, told, IInv, TypeOK, EofMeansFlushed, Sound, InOrder, Now,
              Due, EncoderState
<1>2. ASSUME NEW n \in -1..MaxSamples, Encode(n)
      PROVE  IInv'
  BY <1>2, EncodeCases, InitFailsKeepsInv, NotCompleteKeepsInv, EncodesKeepsInv,
     ModuleFailsKeepsInv, OutputTooSmallKeepsInv
<1>3. CASE Reinitialize
  BY <1>3, ReinitializeKeepsInv
<1>4. InitFlags \subseteq Flags /\ userFramelength \in Lengths
  BY DEF IInv, TypeOK
<1>5. ASSUME NEW n \in Lengths, SetGranuleLength(n)
      PROVE  IInv'
  <2>1. /\ InitFlags' = InitFlags \cup {"CONFIG", "TRANSPORT"} /\ userFramelength' = n
        /\ Keep /\ SetsParam
    BY <1>5 DEF SetGranuleLength
  <2>2. InitFlags' # {} /\ InitFlags' \subseteq Flags /\ "CONFIG" \in InitFlags'
        /\ ("OTHER" \in InitFlags' <=> "OTHER" \in InitFlags)
    BY <1>4, <2>1 DEF Flags
  <2> QED BY <1>4, <2>1, <2>2, SetsParamKeepsInv
<1>6. CASE SetInputFormat
  <2>1. /\ InitFlags' = InitFlags \cup {"CONFIG", "STATES", "TRANSPORT"}
        /\ userFramelength' = userFramelength /\ Discard /\ SetsParam
    BY <1>6 DEF SetInputFormat
  <2>2. InitFlags' # {} /\ InitFlags' \subseteq Flags /\ "CONFIG" \in InitFlags'
        /\ ("OTHER" \in InitFlags' <=> "OTHER" \in InitFlags)
    BY <1>4, <2>1 DEF Flags
  <2> QED BY <1>4, <2>1, <2>2, SetsParamKeepsInv
<1>7. ASSUME NEW flags \in {{"TRANSPORT"}, {"CONFIG"}}, SetOther(flags)
      PROVE  IInv'
  <2>1. /\ InitFlags' = InitFlags \cup flags
        /\ userFramelength' = userFramelength /\ Keep /\ SetsParam
    BY <1>7 DEF SetOther
  <2>2. InitFlags' # {} /\ InitFlags' \subseteq Flags
        /\ ("OTHER" \in InitFlags' <=> "OTHER" \in InitFlags)
    BY <1>4, <2>1 DEF Flags
  <2>3. "CONFIG" \notin InitFlags' => nSamplesToRead > 0
    <3>1. "CONFIG" \notin InitFlags => nSamplesToRead > 0
      BY DEF IInv, Sound, Now
    <3> QED BY <2>1, <3>1
  <2> QED BY <1>4, <2>1, <2>2, <2>3, SetsParamKeepsInv
<1>8. ASSUME NEW flags \in {{"RESET_INBUFFER"}, InitAll}, SetControlState(flags)
      PROVE  IInv'
  <2>1. /\ InitFlags' = flags /\ (nSamplesToRead > 0 \/ "CONFIG" \in flags)
        /\ userFramelength' = userFramelength /\ Discard /\ SetsParam
    BY <1>8 DEF SetControlState, InitAll, Flags
  <2>2. InitFlags' # {} /\ InitFlags' \subseteq Flags
    BY <1>8, <2>1 DEF Flags, InitAll
  <2> QED BY <1>4, <2>1, <2>2, SetsParamKeepsInv
<1> QED BY <1>1, <1>2, <1>3, <1>5, <1>6, <1>7, <1>8 DEF Next

-----------------------------------------------------------------------------
\* Of an application that does not go on with samples after a flush:

\* the state is of its type,
THEOREM EncoderTypeCorrect ==
  ASSUME ~Resumes
  PROVE  Spec => []TypeOK
<1>1. IInv => TypeOK
  BY DEF IInv
<1> QED BY <1>1, InitSound, NextKeepsInv, PTL DEF Spec

\* the end of a flush is reported when every sample was encoded, with as many zeros
\* behind the last one as the encoder is late,
THEOREM EofIsTrue ==
  ASSUME ~Resumes
  PROVE  Spec => []EofMeansFlushed
<1>1. IInv => EofMeansFlushed
  BY DEF IInv
<1> QED BY <1>1, InitSound, NextKeepsInv, PTL DEF Spec

\* and what the core gets are the samples in order, each of them once.
THEOREM CoreGetsSamplesInOrder ==
  ASSUME ~Resumes
  PROVE  Spec => EncodesInOrder
<1> DEFINE Step == (frame' # NoFrame /\ ~mixed) =>
                     \A i \in 0..(frame'.length - 1) :
                       LET next == IF encoded + 1 + i <= fed' THEN encoded + 1 + i ELSE 0
                       IN  frame'.pcm[i] = next \/ (failed /\ frame'.pcm[i] = 0)
<1>1. ASSUME IInv, [Next]_vars
      PROVE  [Step]_vars
  <2> SUFFICES ASSUME Next, frame' # NoFrame, ~mixed, NEW i \in 0..(frame'.length - 1)
               PROVE  \/ frame'.pcm[i] = IF encoded + 1 + i <= fed' THEN encoded + 1 + i ELSE 0
                      \/ failed /\ frame'.pcm[i] = 0
    BY <1>1
  <2>1. PICK n \in -1..MaxSamples : Encode(n)
    BY DEF Next, Reinitialize, InitFails, SetGranuleLength, SetInputFormat, SetOther,
           SetControlState, SetsParam
  <2>2. PICK e, p : Framed(e, n, p) /\ \E metadata \in BOOLEAN : Encodes(p, metadata)
    BY <1>1, <2>1, EncodeCases DEF InitFails, NotComplete, ModuleFails, OutputTooSmall
  <2>3. /\ frame' = [pcm |-> p.pcm, length |-> p.toRead] /\ fed' = p.fed
        /\ p.read \in Nat /\ p.toRead \in Nat /\ p.read >= p.toRead
    <3>1. p \in EncoderState /\ p.read >= p.toRead
      BY <2>2, FramedSound
    <3>2. frame' = [pcm |-> p.pcm, length |-> p.toRead] /\ fed' = p.fed
      BY <2>2, <3>1 DEF Encodes, Becomes, EncoderState
    <3> QED BY <3>1, <3>2, FrameLengths DEF EncoderState
  <2>4. i \in 0..(p.read - 1)
    BY <2>3
  <2>5. p.pcm[i] = Due(p, i) \/ (failed /\ p.pcm[i] = 0)
    BY <2>2, <2>4, FramedSound
  <2> QED BY <2>3, <2>5 DEF Due
<1> QED BY <1>1, InitSound, NextKeepsInv, PTL DEF Spec, EncodesInOrder
=============================================================================
