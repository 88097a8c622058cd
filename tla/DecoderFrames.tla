--------------------------- MODULE DecoderFrames ---------------------------
(***************************************************************************)
(* The frames of an AAC stream with SBR through the decoder library:       *)
(* aacDecoder_DecodeFrame parses the core and the SBR payload of a frame,  *)
(* renders what the error concealment makes of the core (Concealment) and  *)
(* applies SBR to it (SbrSlots).  Energy interpolation delays the core by  *)
(* a frame, and everything that goes with it has to be delayed alike.      *)
(* A call with AACDEC_INTR or AACDEC_CLRHIST is two steps, Begin and one of *)
(* the frames; any other call is one.                                      *)
(* A USAC or low delay stream is only configured here; its frames are not  *)
(* modelled.                                                               *)
(***************************************************************************)
EXTENDS Concealment, SbrSlots

CONSTANTS
  ConcealMethodUser, \* methods the application asks for, not all of them known
  Codecs,            \* what the stream is configured for
  MaxTroubles        \* bound: troubles before the decoder gets time to recover

ASSUME FramesAssumption ==
  /\ Methods = {"Mute", "Noise", "Inter"} /\ ConcealMethodUser \subseteq Methods \cup {"Unknown"}
  /\ "AAC" \in Codecs /\ Codecs \subseteq {"AAC", "LowDelay", "USAC"} /\ OldestData = Oldest
  /\ MaxTroubles \in Nat

VARIABLES
  codec,     \* AC_USAC, AC_LD and AC_ELD of flags[0]
  sbr,       \* the SBR decoder, and what it rendered
  rendered,
  delays,    \* sbrParams.bsDelay, and the delays of the DRC and the downmix
  chosen,    \* concealMethodUser is not ConcealMethodNone
  started,   \* aacChannelsPrev is not 0
  call,      \* which flag the call that has begun has, "None" between calls
  steady,    \* history: calls in a row, for one method, with SBR payload or a flush, up to 2
  headers,   \* history: calls in a row with an SBR header and a core to go with it, up to 2
  troubles   \* since headers was 2

frameVars ==
  <<vars, codec, sbr, rendered, delays, chosen, started, call, steady, headers,
    troubles>>

Upto(max, n) == IF n < max THEN n + 1 ELSE n

\* What is not the plain decoding of frames comes in bursts of at most MaxTroubles.
Trouble == troubles < MaxTroubles /\ troubles' = troubles + 1
Clean == troubles' = IF headers' = 2 THEN 0 ELSE troubles

-----------------------------------------------------------------------------
\* CConcealment_GetDelay
GetDelay(m) == IF m = "Inter" THEN 1 ELSE 0

AllDelays(d) == [bsDelay |-> d, drc |-> d, dmx |-> d]

\* Faulty: the SBR decoder keeps its delay.
SetsMethodOfCore(m, s, d, c) ==
  [ok |-> TRUE, method |-> m, sbr |-> s, delays |-> [AllDelays(GetDelay(m)) EXCEPT !.bsDelay = @]]

\* setConcealMethod: the method and all delays, or back to what was noted of
\* them.  For USAC nothing has been noted yet when it gives up.
SetsMethod(m, s, d, c) ==
  CASE c = "USAC" /\ m \notin {"Mute", "Noise"} ->
         [ok |-> FALSE, method |-> method, sbr |-> [s EXCEPT !.numDelayFrames = 0],
          delays |-> [d EXCEPT !.drc = 0, !.dmx = 0]]
    [] c # "USAC" /\ m = "Unknown" ->
         [ok |-> FALSE, method |-> method, sbr |-> [s EXCEPT !.numDelayFrames = GetDelay(method)],
          delays |-> [d EXCEPT !.drc = GetDelay(method), !.dmx = GetDelay(method)]]
    [] OTHER ->
         [ok |-> TRUE, method |-> m, sbr |-> [s EXCEPT !.numDelayFrames = GetDelay(m)],
          delays |-> AllDelays(GetDelay(m))]

\* aacDecoder_ConfigCallback: where interpolation is not implemented, or unwanted
\* and not asked for, noise substitution replaces it.
RevertsInter(c) ==
  /\ GetDelay(method) > 0
  /\ c = "USAC" \/ (c = "LowDelay" /\ ~chosen)

\* CAacDecoder_Init with new memory; the elements of the SBR decoder are made
\* anew, too.
Configure(c) ==
  LET new == NewDecoder(sbr.numDelayFrames)
      r == IF RevertsInter(c) THEN SetsMethod("Noise", new, delays, c)
           ELSE [method |-> method, sbr |-> new, delays |-> delays]
  IN  /\ call = "None"
      /\ codec' = c /\ method' = r.method /\ sbr' = r.sbr /\ delays' = r.delays
      /\ info' = InitChannelData("Ok") /\ Forgotten /\ UNCHANGED switched
      /\ out' = [spectrum |-> Silence, sequence |-> "Long"] /\ noise' = FALSE
      /\ rendered' = [mode |-> "Upsampled"]
      /\ started' = FALSE /\ steady' = 0 /\ headers' = 0
      /\ Trouble
      /\ UNCHANGED <<chosen, call>>

\* aacDecoder_SetParam(AAC_CONCEAL_METHOD)
SetConcealMethod(m) ==
  LET r == SetsMethod(m, sbr, delays, codec)
  IN  /\ call = "None"
      /\ method' = r.method /\ sbr' = r.sbr /\ delays' = r.delays
      /\ chosen' = (chosen \/ r.ok)
      /\ steady' = IF r.method = method THEN steady ELSE 0
      /\ headers' = IF r.method = method THEN headers ELSE 0
      /\ Trouble
      /\ UNCHANGED <<info, out, noise, recent, run, switched, codec, rendered, started, call>>

-----------------------------------------------------------------------------
\* A call begins: AACDEC_INTR interrupts the SBR decoder, AACDEC_CLRHIST resets
\* the concealment, and the SBR decoder when it is initialized next.
Begin ==
  /\ call = "None" /\ codec = "AAC"
  /\ call' \in {"Interrupted", "Cleared"}
  /\ sbr' = IF call' = "Interrupted" THEN Interrupted(sbr)
            ELSE [sbr EXCEPT !.forceReset = TRUE]
  /\ IF call' = "Cleared"
     THEN ClearHistory /\ steady' = 0 /\ headers' = 0
     ELSE UNCHANGED <<vars, steady, headers>>
  /\ Trouble
  /\ UNCHANGED <<codec, rendered, delays, chosen, started>>

\* The core of a frame; the histories of Concealment are not kept here.
Core(ok, frame) == Render(ok, frame) /\ UNCHANGED <<recent, run, switched>>

\* The rest of it, when the core has been rendered: coreOk says whether it was
\* parsed, s what the parser made of the SBR decoder.
Shown == info'.concealState \notin {"Mute", "FadeOut"}

ApplySbr(s, coreOk) ==
  LET ok == coreOk /\ Shown
      r == Apply([s EXCEPT !.numDelayFrames = delays.bsDelay], ok)
  IN  sbr' = r.sbr /\ rendered' = r.rendered

HasHeader(p) == p.header \in Settings /\ p.data = "Ok"

\* What CAacDecoder_DecodeFrame does with the SBR payload of a frame, p = NoPayload
\* if there is none.
NoPayload == [header |-> "None", data |-> "None"]
Parsed2(p) ==
  LET s == AgedData(InitElement(sbr)) IN IF p = NoPayload THEN s ELSE Parse(s, p)

Ended == call' = "None" /\ UNCHANGED <<method, codec, delays, chosen>>

\* A frame that is decoded.
DecodeGood(p) ==
  /\ codec = "AAC"
  /\ Core(TRUE, LongFrame)
  /\ ApplySbr(Parsed2(p), TRUE)
  /\ started' = TRUE
  /\ steady' = IF p = NoPayload THEN 0 ELSE Upto(2, steady)
  /\ headers' = IF HasHeader(p) /\ Shown THEN Upto(2, headers) ELSE 0
  /\ IF p.header # "Invalid" /\ p.data = "Ok" THEN Clean ELSE Trouble
  /\ Ended

\* A frame in which an error is found when its SBR payload has been parsed.
DecodeBad(p) ==
  /\ codec = "AAC" /\ started
  /\ Core(FALSE, LongFrame)
  /\ ApplySbr(Parsed2(p), FALSE)
  /\ steady' = IF p = NoPayload THEN 0 ELSE Upto(2, steady)
  /\ headers' = 0
  /\ Ended /\ Trouble /\ UNCHANGED started

\* A frame that is lost, or in which the error is found before its payload.
Conceal ==
  /\ codec = "AAC" /\ started
  /\ Core(FALSE, LongFrame)
  /\ ApplySbr(AgedData(sbr), FALSE)
  /\ steady' = 0 /\ headers' = 0
  /\ Ended /\ Trouble /\ UNCHANGED started

\* AACDEC_FLUSH: the SBR decoder is interrupted behind it.
FlushFrame ==
  /\ codec = "AAC" /\ call # "Interrupted" /\ started
  /\ Core(TRUE, [LongFrame EXCEPT !.cleared = TRUE])
  /\ LET r == Apply([AgedData(sbr) EXCEPT !.numDelayFrames = delays.bsDelay, !.flush = TRUE], Shown)
     IN  sbr' = Interrupted(r.sbr) /\ rendered' = r.rendered
  /\ steady' = Upto(2, steady) /\ headers' = 0
  /\ Ended /\ Trouble /\ UNCHANGED started

\* Before the first frame there is nothing to conceal or to flush.
NoOutput ==
  /\ codec = "AAC" /\ ~started
  /\ call' = "None"
  /\ UNCHANGED <<vars, codec, sbr, rendered, delays, chosen, started, steady, headers,
                 troubles>>

FramesInit ==
  /\ Init /\ method = "Inter"
  /\ codec = "AAC" /\ chosen = FALSE
  /\ sbr = NewDecoder(1) /\ delays = AllDelays(1)
  /\ rendered = [mode |-> "Upsampled"]
  /\ started = FALSE /\ call = "None" /\ steady = 0 /\ headers = 0 /\ troubles = 0

FramesNext ==
  \/ \E c \in Codecs : Configure(c)
  \/ \E m \in ConcealMethodUser : SetConcealMethod(m)
  \/ Begin
  \/ \E p \in Payload \cup {NoPayload} : DecodeGood(p) \/ DecodeBad(p)
  \/ Conceal \/ FlushFrame \/ NoOutput

FramesSpec == FramesInit /\ [][FramesNext]_frameVars
-----------------------------------------------------------------------------
FramesTypeOK ==
  /\ codec \in Codecs /\ sbr \in SbrDecoder /\ rendered \in Rendering
  /\ delays \in [bsDelay : 0..1, drc : 0..1, dmx : 0..1]
  /\ chosen \in BOOLEAN /\ started \in BOOLEAN
  /\ call \in {"None", "Interrupted", "Cleared"}
  /\ steady \in 0..2 /\ headers \in 0..2 /\ troubles \in 0..MaxTroubles

\* The comment on AAC_CONCEAL_METHOD: "keeps all modules and libs in a consistent
\* state even in the case an error occures".
DelaysAgree ==
  /\ delays = AllDelays(GetDelay(method)) /\ sbr.numDelayFrames = GetDelay(method)

\* The data that are applied were parsed with the header they are applied with.
HeaderFitsData == rendered.mode = "Decoded" => rendered.parsed = rendered.applied

\* SBR data are applied to the frame of the core they came with.
InStep ==
  (rendered.mode = "Decoded" /\ steady = 2) =>
    out.spectrum.from \subseteq {rendered.age}

\* After frames with a header SBR is decoded again.
SbrRecovers == headers = 2 => rendered.mode = "Decoded"
=============================================================================
