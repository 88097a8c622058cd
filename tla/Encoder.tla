------------------------------ MODULE Encoder ------------------------------
(***************************************************************************)
(* aacEncEncode of libAACenc (aacenc_lib.cpp): the encoder library collects *)
(* samples until a frame is complete, appends zeros when the application    *)
(* flushes, has a complete frame encoded, and initializes its modules again *)
(* before that when a parameter was changed or a frame has failed.          *)
(*                                                                          *)
(* A call is one action.  Samples are numbered as the library takes them    *)
(* and counted for one of the input channels; 0 is a zero.  SBR and MPEG    *)
(* Surround, which move the place new samples are stored at, and the delay  *)
(* of the metadata encoder are left out.                                    *)
(***************************************************************************)
EXTENDS Integers

CONSTANTS
  Lengths,     \* what AACENC_GRANULE_LENGTH may be set to
  Supported,   \* those FDKaacEnc_AdjustEncSettings accepts
  Delay,       \* codec delay for a frame length, DELAY_AAC of it
  MaxSamples,  \* bound: samples the application has
  MaxTroubles, \* bound: parameters set and frames failed
  Resumes      \* an application that has begun to flush may go on with samples, without
               \* resetting the input buffer before

ASSUME EncoderAssumption ==
  /\ Lengths \subseteq Nat \ {0} /\ Supported \subseteq Lengths
  /\ Delay \in [Supported -> Nat \ {0}]
  /\ \E max \in Lengths : \A n \in Lengths : n <= max
  /\ MaxSamples \in Nat /\ MaxTroubles \in Nat /\ Resumes \in BOOLEAN

\* AACENC_CTRLFLAGS; INIT_ALL has every bit, also those without a name.
Flags == {"CONFIG", "STATES", "TRANSPORT", "RESET_INBUFFER", "OTHER"}
InitAll == Flags

LongestFrame == CHOOSE max \in Lengths : \A n \in Lengths : n <= max
Index == 0..(LongestFrame - 1)
Silence == [i \in Index |-> 0]

VARIABLES
  InitFlags,
  userFramelength,
  inputBuffer,     \* of one channel
  nSamplesRead,    \* how much of it is filled,
  nSamplesToRead,  \* and how much is to be
  nZerosAppended,
  nDelay,
  result,          \* of the last call
  frame,           \* history: what it had encoded, and how many samples of it
  fed,             \* history: the last sample taken from the application
  encoded,         \* history: the last one of them that left the buffer
  silence,         \* history: zeros encoded since, up to nDelay
  failed,          \* history: the frame in the buffer has failed to be encoded
  mixed,           \* history: more was in the buffer than a frame takes, and it
                   \* has not been empty since
  flushing,        \* the application has begun to flush
  troubles         \* bounded by MaxTroubles

buffer == <<inputBuffer, nSamplesRead>>
settings == <<nSamplesToRead, nDelay>>
told == <<result, frame, fed, encoded, silence, failed, mixed, flushing>>
vars == <<InitFlags, userFramelength, buffer, settings, nZerosAppended, told, troubles>>

Smaller(a, b) == IF a < b THEN a ELSE b
NoFrame == [pcm |-> Silence, length |-> 0]

-----------------------------------------------------------------------------
\* The encoder in the course of a call: what aacEncInit and the handling of the
\* samples make of it.
EncoderState ==
  [flags : SUBSET Flags, pcm : [Index -> Nat], read : 0..LongestFrame,
   toRead : Supported \cup {0}, zeros : Nat, delay : Nat, fed : Nat]

Now ==
  [flags |-> InitFlags, pcm |-> inputBuffer, read |-> nSamplesRead, toRead |-> nSamplesToRead,
   zeros |-> nZerosAppended, delay |-> nDelay, fed |-> fed]

\* aacEncInit up to the modules: the settings are refused, or a module is.
Refused(e) == "CONFIG" \in e.flags /\ userFramelength \notin Supported

\* Faulty: a flush goes on counting after the encoder was initialized again.
ClearedCounting(e) ==
  [e EXCEPT !.pcm = IF e.flags = InitAll THEN Silence ELSE @,
            !.delay = IF "CONFIG" \in e.flags THEN Delay[userFramelength] ELSE @]

\* Faulty: the input buffer is cleared whenever the configuration changes.
ClearedAlways(e) ==
  [e EXCEPT !.zeros = 0, !.pcm = IF "CONFIG" \in e.flags THEN Silence ELSE @,
            !.delay = IF "CONFIG" \in e.flags THEN Delay[userFramelength] ELSE @]

Cleared(e) ==
  [e EXCEPT !.zeros = 0, !.pcm = IF e.flags = InitAll THEN Silence ELSE @,
            !.delay = IF "CONFIG" \in e.flags THEN Delay[userFramelength] ELSE @]

\* Faulty: what has asked for the initialization is not forgotten.
InitializedAgain(e) ==
  [Cleared(e) EXCEPT !.toRead = IF "CONFIG" \in e.flags THEN userFramelength ELSE @]

\* aacEncInit that succeeds
Initialized(e) ==
  [Cleared(e) EXCEPT !.toRead = IF "CONFIG" \in e.flags THEN userFramelength ELSE @, !.flags = {}]

Ready(e) == IF e.flags = {} THEN e ELSE Initialized(e)

\* Faulty: all samples are taken, whatever the buffer holds already.
TakenAll(e, n) ==
  LET new == IF n > 0 THEN Smaller(n, e.toRead) ELSE 0
  IN  [e EXCEPT !.pcm = [i \in Index |-> IF i \in e.read..(e.read + new - 1)
                                         THEN e.fed + 1 + i - e.read ELSE @[i]],
                !.read = @ + new, !.fed = @ + new]

\* Samples are taken up to a complete frame.
Taken(e, n) ==
  LET free == IF e.read < e.toRead THEN e.toRead - e.read ELSE 0
      new == IF n > 0 THEN Smaller(n, free) ELSE 0
  IN  [e EXCEPT !.pcm = [i \in Index |-> IF i \in e.read..(e.read + new - 1)
                                         THEN e.fed + 1 + i - e.read ELSE @[i]],
                !.read = @ + new, !.fed = @ + new]

\* An incomplete frame is completed by zeros.
Zeroed(e) ==
  [e EXCEPT !.pcm = [i \in Index |-> IF i \in e.read..(e.toRead - 1) THEN 0 ELSE @[i]],
            !.zeros = @ + e.toRead - e.read, !.read = e.toRead]

Complete(e) == e.read >= e.toRead
EndsFlush(e, n) == ~Complete(e) /\ n = -1 /\ e.zeros >= e.delay
Padded(e, n) == IF ~Complete(e) /\ n = -1 THEN Zeroed(e) ELSE e

Becomes(e) ==
  /\ InitFlags' = e.flags /\ inputBuffer' = e.pcm /\ nSamplesRead' = e.read
  /\ nSamplesToRead' = e.toRead /\ nZerosAppended' = e.zeros /\ nDelay' = e.delay /\ fed' = e.fed

-----------------------------------------------------------------------------
\* What the call says of the samples: those up to last have left the buffer.
\* More than a frame in the buffer is noted until the buffer is empty.
Left(e, last) ==
  /\ encoded' = last
  /\ mixed' = (nSamplesRead' # 0 /\ (mixed \/ e.read > e.toRead))

Trouble == troubles < MaxTroubles /\ troubles' = troubles + 1

\* aacEncInit fails; the flags are kept for the next call.
InitFails(e) ==
  /\ e.flags # {}
  /\ \/ Refused(e) /\ Becomes([e EXCEPT !.zeros = 0]) /\ UNCHANGED troubles
     \/ /\ ~Refused(e) /\ e.flags \cap {"CONFIG", "STATES", "TRANSPORT"} # {}
        /\ Becomes(Cleared(e)) /\ Trouble
  /\ result' = "InitError" /\ frame' = NoFrame
  /\ UNCHANGED <<encoded, silence, failed, mixed>>

\* There is nothing to encode yet, or no more.
NotComplete(e, n) ==
  /\ ~Complete(e) /\ (n = -1 => EndsFlush(e, n))
  /\ Becomes(e)
  /\ result' = IF n = -1 THEN "Eof" ELSE "Ok"
  /\ frame' = NoFrame
  /\ Left(e, encoded) /\ UNCHANGED <<silence, failed, troubles>>

\* A frame is encoded; new metadata may ask for another header.
Encodes(e, metadata) ==
  LET rest == Smaller(encoded + e.toRead, e.fed)
  IN  /\ Becomes([e EXCEPT !.read = @ - e.toRead,
                           !.flags = IF metadata THEN @ \cup {"TRANSPORT"} ELSE @])
      /\ result' = "Encoded" /\ frame' = [pcm |-> e.pcm, length |-> e.toRead]
      /\ Left(e, rest)
      /\ silence' = Smaller(e.delay, IF rest = encoded THEN silence + e.toRead
                                     ELSE encoded + e.toRead - rest)
      /\ failed' = FALSE
      /\ IF metadata THEN Trouble ELSE UNCHANGED troubles

\* A module of the encoder fails, and the frame stays in the buffer.
ModuleFails(e) ==
  /\ Becomes([e EXCEPT !.flags = InitAll])
  /\ result' = "EncodeError" /\ frame' = NoFrame
  /\ Left(e, encoded) /\ failed' = TRUE /\ UNCHANGED silence
  /\ Trouble

\* The output buffer is too small for the frame, which is lost.
OutputTooSmall(e) ==
  /\ Becomes([e EXCEPT !.read = @ - e.toRead, !.flags = InitAll])
  /\ result' = "EncodeError" /\ frame' = NoFrame
  /\ Left(e, Smaller(encoded + e.toRead, e.fed))
  /\ silence' = 0 /\ failed' = FALSE
  /\ Trouble

\* aacEncEncode with n samples, or to flush if n = -1.
Encode(n) ==
  LET e == Taken(Ready(Now), n)
  IN  /\ n > 0 => fed + n <= MaxSamples
      /\ n # -1 => Resumes \/ ~flushing
      /\ \/ InitFails(Now)
         \/ /\ InitFlags = {} \/ ~Refused(Now)
            /\ \/ NotComplete(e, n)
               \/ /\ (n = -1 /\ ~EndsFlush(e, n)) \/ Complete(e)
                  /\ LET p == Padded(e, n)
                     IN  \/ \E metadata \in BOOLEAN : Encodes(p, metadata)
                         \/ ModuleFails(p) \/ OutputTooSmall(p)
      /\ flushing' = (n = -1)
      /\ UNCHANGED userFramelength

\* aacEncEncode with nothing but the encoder
Reinitialize ==
  /\ InitFlags # {}
  /\ \/ InitFails(Now)
     \/ /\ ~Refused(Now)
        /\ Becomes(Initialized(Now))
        /\ result' = "Ok" /\ frame' = NoFrame
        /\ Left(Initialized(Now), encoded) /\ UNCHANGED <<silence, failed, troubles>>
  /\ UNCHANGED <<userFramelength, flushing>>

-----------------------------------------------------------------------------
\* aacEncoder_SetParam, when the value is another one than before.
Discard ==
  /\ nSamplesRead' = 0 /\ encoded' = fed /\ failed' = FALSE /\ mixed' = FALSE
  /\ flushing' = FALSE
Keep == UNCHANGED <<nSamplesRead, encoded, failed, mixed, flushing>>

SetsParam ==
  /\ result' = "None" /\ frame' = NoFrame
  /\ Trouble
  /\ UNCHANGED <<inputBuffer, settings, nZerosAppended, fed, silence>>

SetGranuleLength(n) ==
  /\ userFramelength # n
  /\ userFramelength' = n
  /\ InitFlags' = InitFlags \cup {"CONFIG", "TRANSPORT"}
  /\ Keep /\ SetsParam

\* The sampling rate or the order of the channels
SetInputFormat ==
  /\ InitFlags' = InitFlags \cup {"CONFIG", "STATES", "TRANSPORT"}
  /\ Discard /\ SetsParam /\ UNCHANGED userFramelength

\* Parameters of the transport encoder, and of the core
SetOther(flags) ==
  /\ InitFlags' = InitFlags \cup flags
  /\ Keep /\ SetsParam /\ UNCHANGED userFramelength

\* AACENC_CONTROL_STATE overwrites what the other parameters have asked for.  (With
\* AACENC_INIT_NONE it would also cancel the initialization after a failed frame, and
\* before the first one leave the encoder without a configuration.)
SetControlState(flags) ==
  /\ InitFlags # flags /\ (nSamplesToRead > 0 \/ "CONFIG" \in flags)
  /\ InitFlags' = flags
  /\ IF "RESET_INBUFFER" \in flags THEN Discard ELSE Keep
  /\ SetsParam /\ UNCHANGED userFramelength

Init ==
  /\ InitFlags = InitAll /\ userFramelength \in Supported
  /\ inputBuffer = Silence /\ nSamplesRead = 0 /\ nSamplesToRead = 0
  /\ nZerosAppended = 0 /\ nDelay = 0
  /\ result = "None" /\ frame = NoFrame
  /\ fed = 0 /\ encoded = 0 /\ silence = 0
  /\ failed = FALSE /\ mixed = FALSE /\ flushing = FALSE /\ troubles = 0

Next ==
  \/ \E n \in -1..MaxSamples : Encode(n)
  \/ Reinitialize
  \/ \E n \in Lengths : SetGranuleLength(n)
  \/ SetInputFormat
  \/ \E flags \in {{"TRANSPORT"}, {"CONFIG"}} : SetOther(flags)
  \/ \E flags \in {{"RESET_INBUFFER"}, InitAll} : SetControlState(flags)

\* An application that flushes goes on until the end is reported.
Spec == Init /\ [][Next]_vars /\ WF_vars(flushing /\ Encode(-1))

-----------------------------------------------------------------------------
TypeOK ==
  /\ InitFlags \subseteq Flags /\ userFramelength \in Lengths
  /\ inputBuffer \in [Index -> Nat] /\ nSamplesRead \in 0..LongestFrame
  /\ nSamplesToRead \in Supported \cup {0} /\ nZerosAppended \in Nat /\ nDelay \in Nat
  /\ result \in {"None", "Ok", "Encoded", "Eof", "InitError", "EncodeError"}
  /\ frame \in [pcm : [Index -> Nat], length : Nat]
  /\ fed \in Nat /\ encoded \in 0..fed /\ silence \in Nat
  /\ failed \in BOOLEAN /\ mixed \in BOOLEAN /\ flushing \in BOOLEAN /\ troubles \in 0..MaxTroubles

\* "PCM input data will be retrieved from external input buffer until the fill level
\* allows encoding a single frame": what the core gets are the samples in order,
\* each of them once, with zeros only behind the last one, whatever was set, failed
\* and initialized again in between.  A frame that has failed is replaced by zeros.
EncodesInOrder ==
  [][(frame' # NoFrame /\ ~mixed) =>
       \A i \in 0..(frame'.length - 1) :
         LET next == IF encoded + 1 + i <= fed' THEN encoded + 1 + i ELSE 0
         IN  frame'.pcm[i] = next \/ (failed /\ frame'.pcm[i] = 0)]_vars

\* AACENC_ENCODE_EOF, "when flushing fully concluded": every sample was encoded, and as
\* many zeros behind the last one as the encoder is late.
EofMeansFlushed ==
  result = "Eof" => encoded = fed /\ nSamplesRead = 0 /\ silence >= nDelay

\* An application that goes on flushing is told the end.
FlushEnds == <>[](flushing /\ userFramelength \in Supported) => <>(result = "Eof")
=============================================================================
