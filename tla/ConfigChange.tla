----------------------------- MODULE ConfigChange -----------------------------
(***************************************************************************)
(* The change of the configuration of an xHE-AAC (USAC) stream in libAACdec *)
(* and libMpegTPDec.  An access unit that can be tuned in to, an immediate  *)
(* playout frame, holds the configuration and the access units to decode   *)
(* before it, its pre-roll.  When the configuration is another one, the    *)
(* same call of aacDecoder_DecodeFrame flushes the old decoder, builds the *)
(* new one, decodes the pre-roll and then the frame itself.                *)
(*                                                                         *)
(* The transport decoder (tp) and the core decoder (dec) each hold a flush *)
(* status of their own: transportDec_InBandConfig advances the first and   *)
(* tells the second by a callback, and aacDecoder_DecodeFrame and the      *)
(* parser of the pre-roll reset the second alone.  Over LOAS the stream    *)
(* mux configuration is a second way for a configuration to arrive.        *)
(*                                                                         *)
(* A configuration is told by its bytes.  Left out are interruptions asked *)
(* for by the application, cross-fades, several sub frames, damage that    *)
(* leaves a configuration parseable, callbacks that fail, and changes of a  *)
(* configuration that need no new decoder.                                 *)
(***************************************************************************)
EXTENDS Integers

CONSTANTS
  Configs,        \* configurations; each needs a decoder built for it
  PreRollConfigs, \* those whose first element is an audio pre-roll extension
  PreRolls,       \* how many access units a pre-roll holds
  Scenarios       \* the stream and what befalls it

NoConfig == "None"
Broken == "Broken" \* a configuration that fails to parse

\* Hidden: the pre-roll extension of a frame cannot be found.  Config: its
\* configuration does not parse.  Units: an access unit is damaged.  Mux: a
\* stream mux configuration is damaged.  Lost: access units do not arrive.
Damages == {"Hidden", "Config", "Units", "Mux", "Lost"}

Scenario == [transport : {"Raw", "Loas"}, configs : SUBSET Configs,
             damage : SUBSET Damages, flushes : BOOLEAN, clears : Nat]

ASSUME ConfigAssumption ==
  /\ {NoConfig, Broken} \cap Configs = {}
  /\ PreRollConfigs \subseteq Configs
  /\ PreRolls \subseteq 0..3 /\ 0 \in PreRolls \* AACDEC_MAX_NUM_PREROLL_AU_USAC
  /\ Scenarios \subseteq Scenario

VARIABLES
  scenario,
  stream, \* the configuration of the access units that now come
  tp,     \* the transport decoder, see InitTp
  dec,    \* the core decoder, see InitDec
  pc,     \* "Idle" between calls, "Unit" in the loop of aacDecoder_DecodeFrame
  op,     \* what the call was asked for: "Decode", "Conceal" or "Flush"
  au,     \* the access unit that was read last
  unit,   \* accessUnit: which unit of the loop is next
  units,  \* numAccessUnits
  ok,     \* frameOK
  did,    \* what became of the last unit
  clears, \* bound: calls with AACDEC_CLRHIST
  known   \* history: the stream's configuration was announced undamaged

vars == <<scenario, stream, tp, dec, pc, op, au, unit, units, ok, did, clears, known>>

HasPreRoll(c) == c \in PreRollConfigs
Loas == scenario.transport = "Loas"

\* An access unit: the configuration it is coded with, whether it is an immediate
\* playout frame, whether it is independent, whether a stream mux configuration
\* and whether a configuration comes with it, the length of its pre-roll.
AccessUnit ==
  {u \in [of : Configs, ipf : BOOLEAN, indep : BOOLEAN, smc : BOOLEAN, cfg : BOOLEAN,
          preroll : PreRolls, damage : Damages \cup {"None"}] :
     /\ u.ipf => u.indep /\ HasPreRoll(u.of)
     /\ u.cfg \/ u.preroll > 0 \/ u.damage = "Hidden" => u.ipf
     /\ u.damage = "Config" => u.cfg
     /\ u.damage = "Mux" => u.smc}

\* The access units that may come now.  The configuration changes at one that
\* announces it: in the frame itself or, over LOAS, in the stream mux
\* configuration, and in both if the new configuration has a pre-roll.
Announces(u) ==
  IF Loas THEN u.smc /\ (HasPreRoll(u.of) => u.cfg) ELSE u.cfg
Coming ==
  {u \in AccessUnit :
     /\ u.of \in scenario.configs
     /\ u.smc => Loas
     /\ u.damage \in scenario.damage \cup {"None"}
     /\ u.of # stream => Announces(u)}

\* The history after u has come, damaged or not.
Arrived(u) ==
  /\ stream' = u.of
  /\ known' = IF Announces(u) /\ u.damage \in {"None", "Units"} THEN TRUE
              ELSE known /\ u.of = stream

-----------------------------------------------------------------------------
\* The core decoder.  config: what it is built for.  buildUp, buildUpCnt:
\* buildUpStatus is USAC_BUILD_UP_ON, and its counter.  output: numChannels is
\* not 0.  prev: aacChannelsPrev is not 0.  lastOk: prevFrameOk[1].  since:
\* history, how many units were rendered since it was built, up to 2.
InitDec ==
  [config |-> NoConfig, hasAudioPreRoll |-> FALSE, flushStatus |-> FALSE, buildUp |-> FALSE,
   buildUpCnt |-> 0, output |-> FALSE, prev |-> FALSE, lastOk |-> TRUE, since |-> 0]

\* CAacDecoder_Init with memory to allocate, and CAacDecoder_DeInit.
Rebuilt(d, c) ==
  [d EXCEPT !.config = c, !.hasAudioPreRoll = HasPreRoll(c), !.prev = FALSE, !.lastOk = TRUE,
            !.since = 0]
Freed(d) == [d EXCEPT !.config = NoConfig]

\* The two passes over a configuration: a decoder that is built for it stays.
Applied(d, c) == IF d.config = c THEN d ELSE Rebuilt(d, c)

\* CAacDecoder_CtrlCFGChange
Controlled(d, flush, build) ==
  [d EXCEPT !.flushStatus = flush, !.buildUp = build, !.buildUpCnt = 0]

\* The transport decoder.  asc: the configuration parsed last.  usacConfig: the
\* one whose bytes are stored, which the LATM parser may replace by one it has
\* not applied.  bare: asc.config holds the bytes of a UsacConfig and not of an
\* AudioSpecificConfig.  flushStatus, flushCnt: ctrlCFGChange.  explicitChanged,
\* applyAsc: of the LATM parser.  mux: TPDEC_CONFIG_FOUND.
InitTp ==
  [asc |-> NoConfig, usacConfig |-> NoConfig, bare |-> FALSE, flushStatus |-> FALSE, flushCnt |-> 0,
   explicitChanged |-> FALSE, applyAsc |-> TRUE, mux |-> FALSE]

TPDEC_USAC_NUM_CONFIG_CHANGE_FRAMES == 1

\* transportDec_InBandConfig: the two decoders after it has been given c, whether
\* it returns without an error, and implicitExplicitCfgDiff.
InBand(t, d, err, diff) == [tp |-> t, dec |-> d, ok |-> ~err, diff |-> diff]
NoFlush(t) == [t EXCEPT !.flushStatus = FALSE, !.flushCnt = 0]

InBandError(t, d, diff) == InBand(NoFlush(t), Controlled(d, FALSE, FALSE), TRUE, diff)

\* Faulty: a decoder that has been flushed is kept.
FinishUnapplied(t, d, c, diff) ==
  IF c = Broken THEN InBandError(t, d, diff)
  ELSE InBand([NoFlush(t) EXCEPT !.asc = c, !.usacConfig = c, !.bare = TRUE],
              Controlled(d, FALSE, TRUE), FALSE, diff)

\* Faulty: the decoder is not told to build up.
FinishSilently(t, d, c, diff) ==
  IF c = Broken THEN InBandError(t, d, diff)
  ELSE InBand([NoFlush(t) EXCEPT !.asc = c, !.usacConfig = c, !.bare = TRUE],
              Applied(Controlled(d, FALSE, FALSE), c), FALSE, diff)

\* The flush is over: the new configuration is parsed and applied.
FinishFlush(t, d, c, diff) ==
  IF c = Broken THEN InBandError(t, d, diff)
  ELSE InBand([NoFlush(t) EXCEPT !.asc = c, !.usacConfig = c, !.bare = TRUE],
              Applied(Controlled(d, FALSE, TRUE), c), FALSE, diff)

\* Faulty: the flush is over a frame late.
AdvanceLate(t, d, c, diff) ==
  IF t.flushCnt > TPDEC_USAC_NUM_CONFIG_CHANGE_FRAMES THEN FinishFlush(t, d, c, diff)
  ELSE InBand([t EXCEPT !.flushStatus = TRUE, !.flushCnt = @ + 1],
              Controlled(d, TRUE, FALSE), FALSE, diff)

Advance(t, d, c, diff) ==
  IF t.flushCnt >= TPDEC_USAC_NUM_CONFIG_CHANGE_FRAMES THEN FinishFlush(t, d, c, diff)
  ELSE InBand([t EXCEPT !.flushStatus = TRUE, !.flushCnt = @ + 1],
              Controlled(d, TRUE, FALSE), FALSE, diff)

InBandConfig(t, d, c) ==
  LET same == c = t.usacConfig
      reset == [t EXCEPT !.explicitChanged = FALSE, !.applyAsc = TRUE]
  IN  CASE t.flushStatus -> Advance(t, d, c, FALSE)
        [] ~t.flushStatus /\ same /\ ~t.explicitChanged -> InBand(t, d, FALSE, FALSE)
        [] ~t.flushStatus /\ ~same /\ Loas -> InBandError(reset, Freed(d), TRUE)
        [] OTHER -> Advance([t EXCEPT !.flushCnt = 0, !.explicitChanged = FALSE], d, c, ~same)

-----------------------------------------------------------------------------
\* CAacDecoder_PreRollExtensionPayloadParse at the beginning of au: the two
\* decoders after it, whether it returns without an error, and numPrerollAU.
Parse(t, d, fine, n) == [tp |-> t, dec |-> d, ok |-> fine, n |-> n]

\* The first frame is played with its pre-roll, without a flush.
BuildUpFirst(r) ==
  LET first == ~r.dec.output /\ ~r.diff
  IN  IF first /\ r.dec.flushStatus
      THEN Parse(r.tp, [r.dec EXCEPT !.buildUp = TRUE, !.flushStatus = FALSE], FALSE, 0)
      ELSE Parse(r.tp, [r.dec EXCEPT !.buildUp = @ \/ first], TRUE,
                 IF r.dec.buildUp \/ first THEN au.preroll ELSE 0)

PreRollParse ==
  IF ~au.ipf \/ au.damage = "Hidden"
  THEN Parse(tp, [dec EXCEPT !.flushStatus = FALSE], ~dec.flushStatus, 0)
  ELSE LET r == IF au.cfg
                THEN InBandConfig(tp, dec, IF au.damage = "Config" THEN Broken ELSE au.of)
                ELSE InBand(tp, dec, FALSE, FALSE)
       IN  IF r.ok THEN BuildUpFirst(r) ELSE Parse(r.tp, r.dec, FALSE, 0)

\* CAacDecoder_DecodeFrame on one unit, with frameOK = fine on entry: the decoder
\* after it, frameOK, and what became of the unit.  Without a frame to repeat
\* there is no output, except while the decoder builds up.
Decoded(d, fine, what) == [dec |-> d, ok |-> fine, did |-> what]
Concealed(d, fine) ==
  IF d.buildUp \/ d.prev
  THEN Decoded([d EXCEPT !.prev = TRUE, !.lastOk = FALSE], fine, "Concealed")
  ELSE Decoded(d, fine, "NoOutput")

DecodeUnit(d, fine, main, independent, bad) ==
  CASE d.config = NoConfig -> Decoded(d, fine, "NoOutput")
    [] d.config # NoConfig /\ op = "Conceal" -> Concealed(d, fine)
    [] d.config # NoConfig /\ op # "Conceal" /\ (op = "Flush" \/ d.flushStatus) ->
         IF ~fine THEN Concealed(d, FALSE)
         ELSE IF d.prev THEN Decoded([d EXCEPT !.lastOk = TRUE], TRUE, "Flushed")
         ELSE Decoded(d, TRUE, "NoOutput")
    [] OTHER ->
         IF fine /\ ~bad /\ (d.lastOk \/ independent)
         THEN Decoded([d EXCEPT !.prev = TRUE, !.lastOk = TRUE], TRUE,
                      IF main THEN "Decoded" ELSE "PreRoll")
         ELSE Concealed(d, FALSE)

\* What can fail: a damaged unit, or one that is decoded with the wrong decoder.
MayFail(d) == au.damage \in {"Units", "Hidden"} \/ d.config # au.of

Rendered(d) ==
  [d EXCEPT !.output = TRUE, !.since = IF @ < 2 THEN @ + 1 ELSE @]

\* The end of the loop for a main access unit; buildUpCnt is an SCHAR.
BuiltUp(d) ==
  IF ~d.buildUp THEN d
  ELSE LET cnt == IF d.buildUpCnt = -128 THEN 127 ELSE d.buildUpCnt - 1
       IN  [d EXCEPT !.buildUpCnt = cnt, !.buildUp = cnt >= 0]

\* Faulty: a flush does not begin the access unit again.
LoopOnce(d, next, last) == [pc |-> IF next + 1 < last THEN "Unit" ELSE "Idle", unit |-> next + 1]

\* Faulty: while the decoder builds up the same unit comes again.
LoopBuildUp(d, next, last) ==
  LET n == IF d.flushStatus \/ d.buildUp THEN next ELSE next + 1
  IN  [pc |-> IF n < last \/ (d.flushStatus /\ op # "Conceal") THEN "Unit" ELSE "Idle", unit |-> n]

\* While the decoder is to be flushed the same unit comes again.
Loop(d, next, last) ==
  LET n == IF d.flushStatus THEN next ELSE next + 1
  IN  [pc |-> IF n < last \/ (d.flushStatus /\ op # "Conceal") THEN "Unit" ELSE "Idle", unit |-> n]

\* A pass of the loop of aacDecoder_DecodeFrame.  A unit without output ends the
\* call, unless it was to be flushed.
Iterate ==
  /\ pc = "Unit"
  /\ \E bad \in BOOLEAN :
       LET parse == IF op = "Decode" /\ unit = 0 /\ dec.hasAudioPreRoll THEN PreRollParse
                    ELSE Parse(tp, dec, TRUE, units - 1)
           main == unit >= parse.n
           r == DecodeUnit(parse.dec, ok /\ parse.ok, main, IF main THEN au.indep ELSE unit = 0, bad)
           unflushed == r.did = "NoOutput" /\ r.dec.flushStatus /\ op # "Conceal"
           shown == IF r.did = "NoOutput" THEN r.dec ELSE Rendered(r.dec)
           after == IF main THEN BuiltUp(shown) ELSE shown
           loop == Loop(after, unit, 1 + parse.n)
       IN  /\ bad => op = "Decode" /\ MayFail(parse.dec)
           /\ tp' = IF op = "Flush" /\ ~dec.flushStatus /\ Loas THEN [parse.tp EXCEPT !.mux = FALSE] ELSE parse.tp
           /\ units' = 1 + parse.n
           /\ ok' = r.ok /\ did' = r.did
           /\ IF r.did = "NoOutput" /\ ~unflushed
              THEN dec' = r.dec /\ pc' = "Idle" /\ unit' = unit
              ELSE dec' = after /\ pc' = loop.pc /\ unit' = loop.unit
  /\ UNCHANGED <<scenario, stream, op, au, clears, known>>

-----------------------------------------------------------------------------
\* AACDEC_CLRHIST.  The decoder is freed and the configuration is given to
\* transportDec_OutOfBandConfig again.  That does not take the bytes of a bare
\* UsacConfig, and over LOAS it expects a stream mux configuration.

\* Faulty: the decoder is freed and nothing is restored.
ClearedOnly(t, d) ==
  [tp |-> t, dec |-> [Freed(d) EXCEPT !.output = FALSE]]

Cleared(t, d) ==
  LET free == [Freed(d) EXCEPT !.output = FALSE]
  IN  CASE t.asc = NoConfig -> [tp |-> t, dec |-> d]
        [] t.asc # NoConfig /\ Loas ->
             [tp |-> [t EXCEPT !.mux = FALSE, !.explicitChanged = FALSE], dec |-> free]
        [] t.asc # NoConfig /\ ~Loas ->
             [tp |-> [t EXCEPT !.usacConfig = IF t.bare THEN @ ELSE t.asc],
              dec |-> IF t.bare THEN free ELSE Rebuilt(free, t.asc)]

\* CLatmDemux_ReadStreamMuxConfig: a configuration is noted, to be compared with
\* the one in the next immediate playout frame, or parsed.
Noted(t, c) == [t EXCEPT !.usacConfig = c, !.explicitChanged = c # t.usacConfig, !.mux = TRUE]
Parsed(t, c) ==
  [t EXCEPT !.asc = c, !.usacConfig = c, !.bare = FALSE, !.explicitChanged = FALSE,
            !.applyAsc = FALSE, !.mux = TRUE]

\* CLatmDemux_ReadAudioMuxElement at the access unit u: a configuration is only
\* noted if both it and the one in use have a pre-roll.
Read(t, d, fine) == [tp |-> t, dec |-> d, ok |-> fine]

ReadAudioMuxElement(t, d, u) ==
  LET defer == ~t.applyAsc /\ HasPreRoll(t.asc) /\ HasPreRoll(u.of)
  IN  CASE u.smc /\ u.damage = "Mux" ->
             Read([t EXCEPT !.mux = FALSE, !.explicitChanged = FALSE, !.applyAsc = TRUE], d, FALSE)
        [] u.smc /\ u.damage # "Mux" ->
             IF defer THEN Read(Noted(t, u.of), d, TRUE)
             ELSE Read(Parsed(t, u.of), Applied(d, u.of), TRUE)
        [] ~u.smc /\ t.mux -> Read(t, d, TRUE)
        [] OTHER -> Read([t EXCEPT !.applyAsc = TRUE], d, FALSE)

\* The clear and the access unit of a call, in this order.
Clear(clear) ==
  /\ clear => clears < scenario.clears
  /\ clears' = IF clear THEN clears + 1 ELSE clears
AfterClear(clear) == IF clear THEN Cleared(tp, dec) ELSE [tp |-> tp, dec |-> dec]

Enter(what) ==
  pc' = "Unit" /\ op' = what /\ unit' = 0 /\ units' = 1 /\ ok' = TRUE /\ did' = "Nothing"

\* A call of aacDecoder_DecodeFrame that reads an access unit.
BeginDecode(u, clear) ==
  LET c == AfterClear(clear)
      r == IF Loas THEN ReadAudioMuxElement(c.tp, c.dec, u) ELSE Read(c.tp, c.dec, TRUE)
  IN  /\ pc = "Idle" /\ ~dec.flushStatus
      /\ ~Loas => tp.asc # NoConfig
      /\ Clear(clear)
      /\ Arrived(u) /\ au' = u
      /\ tp' = r.tp /\ dec' = r.dec
      /\ IF r.ok THEN Enter("Decode")
         ELSE did' = "NoSync" /\ op' = "Decode" /\ UNCHANGED <<pc, unit, units, ok>>
      /\ UNCHANGED scenario

\* A call with AACDEC_CONCEAL or AACDEC_FLUSH.
BeginOther(what, clear) ==
  /\ pc = "Idle"
  /\ what = "Flush" => scenario.flushes
  /\ Clear(clear)
  /\ tp' = AfterClear(clear).tp /\ dec' = AfterClear(clear).dec
  /\ Enter(what)
  /\ UNCHANGED <<scenario, stream, au, known>>

\* aacDecoder_ConfigRaw, before the first access unit.
Configure ==
  /\ pc = "Idle" /\ ~Loas /\ tp.asc = NoConfig
  /\ tp' = [tp EXCEPT !.asc = stream, !.usacConfig = stream]
  /\ dec' = Rebuilt(dec, stream)
  /\ known' = TRUE
  /\ UNCHANGED <<scenario, stream, pc, op, au, unit, units, ok, did, clears>>

\* The access unit u does not reach the decoder.
Lose(u) ==
  /\ pc = "Idle" /\ "Lost" \in scenario.damage
  /\ stream' = u.of /\ known' = (known /\ u.of = stream)
  /\ UNCHANGED <<scenario, tp, dec, pc, op, au, unit, units, ok, did, clears>>

NoUnit == [of |-> NoConfig, ipf |-> FALSE, indep |-> FALSE, smc |-> FALSE, cfg |-> FALSE,
           preroll |-> 0, damage |-> "None"]

Init ==
  /\ scenario \in Scenarios /\ stream \in scenario.configs
  /\ tp = InitTp /\ dec = InitDec
  /\ pc = "Idle" /\ op = "Decode" /\ au = NoUnit
  /\ unit = 0 /\ units = 1 /\ ok = TRUE /\ did = "Nothing"
  /\ clears = 0 /\ known = FALSE

Next ==
  \/ \E u \in Coming : Lose(u)
  \/ \E u \in Coming, clear \in BOOLEAN : BeginDecode(u, clear)
  \/ \E what \in {"Conceal", "Flush"}, clear \in BOOLEAN : BeginOther(what, clear)
  \/ Configure
  \/ Iterate

\* A call, once made, runs to its end.
Spec == Init /\ [][Next]_vars /\ WF_vars(Iterate)

-----------------------------------------------------------------------------
TypeOK ==
  /\ scenario \in Scenarios /\ stream \in scenario.configs
  /\ tp \in [asc : Configs \cup {NoConfig}, usacConfig : Configs \cup {NoConfig}, bare : BOOLEAN,
             flushStatus : BOOLEAN, flushCnt : 0..TPDEC_USAC_NUM_CONFIG_CHANGE_FRAMES,
             explicitChanged : BOOLEAN, applyAsc : BOOLEAN, mux : BOOLEAN]
  /\ dec \in [config : Configs \cup {NoConfig}, hasAudioPreRoll : BOOLEAN, flushStatus : BOOLEAN,
              buildUp : BOOLEAN, buildUpCnt : -128..127, output : BOOLEAN, prev : BOOLEAN,
              lastOk : BOOLEAN, since : 0..2]
  /\ pc \in {"Idle", "Unit"} /\ op \in {"Decode", "Conceal", "Flush"}
  /\ au \in AccessUnit \cup {NoUnit}
  /\ units \in 1..4 /\ unit \in 0..4
  /\ ok \in BOOLEAN /\ known \in BOOLEAN
  /\ did \in {"Nothing", "NoSync", "NoOutput", "Concealed", "Flushed", "PreRoll", "Decoded"}
  /\ clears \in 0..scenario.clears

\* What has been decoded, a pre-roll or the unit itself, was decoded by a decoder
\* built for the configuration it is coded with, if that was announced.
DecodesWithItsConfig == did \in {"Decoded", "PreRoll"} /\ known => dec.config = au.of

\* A flush is begun and ended by the same call: between calls neither decoder is
\* flushing, so the next one reads an access unit.  The frame that follows the
\* pre-roll ends the build up.
FlushCompletes ==
  pc = "Idle" => /\ ~dec.flushStatus /\ ~tp.flushStatus
                 /\ did = "Decoded" => ~dec.buildUp

\* The first thing a new decoder plays is never an immediate playout frame that
\* has a pre-roll: that is decoded before it.
PreRollsFirst ==
  did = "Decoded" /\ au.ipf /\ au.damage = "None" /\ dec.since = 1 => au.preroll = 0

\* An independent frame that is not damaged gives output, if its configuration
\* was announced.
PlaysIntact ==
  pc = "Idle" /\ op = "Decode" /\ known /\ au.damage = "None" /\ au.indep => did # "NoOutput"

\* Every call returns: the loop that flushes and plays pre-rolls comes to its end.
CallsReturn == pc = "Unit" ~> pc = "Idle"
=============================================================================
