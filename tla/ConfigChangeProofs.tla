-------------------------- MODULE ConfigChangeProofs --------------------------
(***************************************************************************)
(* For every raw stream whose configurations all have an audio pre-roll,    *)
(* whatever is lost, damaged, flushed or cleared: the two flush statuses    *)
(* agree and are over when the call is, the build up ends, nothing is      *)
(* decoded with the decoder of another configuration, and a new decoder    *)
(* plays the pre-roll before anything else.  If, besides, no history is    *)
(* cleared after a change, a frame that arrives intact is heard.           *)
(***************************************************************************)
EXTENDS ConfigChange, TLAPS

\* Raw access units; and so few cleared histories that buildUpCnt, which is
\* counted down at the first frame after each of them, does not overflow.
RawStreams ==
  \A s \in Scenarios :
    s.transport = "Raw" /\ s.configs \subseteq PreRollConfigs /\ s.clears <= 126

TpType ==
  [asc : Configs \cup {NoConfig}, usacConfig : Configs \cup {NoConfig}, bare : BOOLEAN,
   flushStatus : BOOLEAN, flushCnt : 0..1,
   explicitChanged : BOOLEAN, applyAsc : BOOLEAN, mux : BOOLEAN]
DecType ==
  [config : Configs \cup {NoConfig}, hasAudioPreRoll : BOOLEAN, flushStatus : BOOLEAN,
   buildUp : BOOLEAN, buildUpCnt : -128..127, output : BOOLEAN, prev : BOOLEAN,
   lastOk : BOOLEAN, since : 0..2]

\* The decoder is built for the configuration the transport decoder holds, or not
\* built; the two flush statuses agree.
Coupled(t, d) ==
  /\ t.asc = t.usacConfig /\ ~t.explicitChanged
  /\ d.config \in {NoConfig, t.usacConfig}
  /\ t.asc # NoConfig => HasPreRoll(t.asc) /\ d.hasAudioPreRoll
  /\ t.flushStatus = d.flushStatus
  /\ d.flushStatus => t.flushCnt = 1 /\ ~d.buildUp /\ t.asc # NoConfig

\* The build up is counted down once for every cleared history, and once before.
CountedDown(d, k) ==
  /\ d.buildUpCnt <= 0
  /\ 0 - d.buildUpCnt <= k + (IF d.output /\ ~d.buildUp THEN 1 ELSE 0)

Good(t, d, k) == t \in TpType /\ d \in DecType /\ Coupled(t, d) /\ CountedDown(d, k)

\* The flush is begun by a frame with a configuration, and ended by it.
Flushing ==
  dec.flushStatus =>
    pc = "Unit" /\ op = "Decode" /\ unit = 0 /\ au.ipf /\ au.cfg /\ au.damage # "Hidden"

\* The unit that is decoded belongs to the stream; a configuration that has been
\* announced is the one in use, or the next pass takes it.
Announced ==
  /\ pc = "Unit" /\ op = "Decode" => au.of = stream /\ au \in AccessUnit /\ tp.asc # NoConfig
  /\ known => \/ tp.usacConfig = stream
              \/ /\ pc = "Unit" /\ op = "Decode" /\ unit = 0
                 /\ au.ipf /\ au.cfg /\ au.damage \in {"None", "Units"}
  /\ tp.asc = NoConfig => did \notin {"Decoded", "PreRoll"}

Control ==
  /\ pc = "Unit" => unit <= 3
  /\ scenario \in Scenarios /\ stream \in scenario.configs
  /\ pc \in {"Idle", "Unit"} /\ op \in {"Decode", "Conceal", "Flush"}
  /\ au \in AccessUnit \cup {NoUnit}
  /\ units \in 1..4 /\ unit \in 0..4
  /\ ok \in BOOLEAN /\ known \in BOOLEAN
  /\ did \in {"Nothing", "NoSync", "NoOutput", "Concealed", "Flushed", "PreRoll", "Decoded"}
  /\ clears \in 0..scenario.clears

IInv ==
  Good(tp, dec, clears) /\ Control /\ Flushing /\ Announced /\ DecodesWithItsConfig /\ FlushCompletes

\* What says that the pre-roll is played first.  A decoder that has rendered
\* nothing is one whose next frame is the first; and from the second unit of a
\* call on, something has been rendered and can be repeated.
Fresh == dec.since = 0 => ~dec.output
FirstAlone == tp.asc = NoConfig => ~dec.output /\ ~au.indep
PreRollPlayed ==
  pc = "Unit" /\ op = "Decode" => (unit = 0 => ok) /\ (unit > 0 => dec.since > 0 /\ dec.prev)

Played == Fresh /\ FirstAlone /\ PreRollPlayed /\ PreRollsFirst

\* What says that there always is a decoder: no history is cleared after the
\* configuration has changed in the band.
Built == tp.asc # NoConfig => dec.config = tp.usacConfig
Kept ==
  /\ Built
  /\ tp.bare => scenario.clears = 0
  /\ tp.usacConfig \in scenario.configs \cup {NoConfig}
  /\ dec.flushStatus => au.damage = "Config" \/ au.of # tp.usacConfig

\* Histories are cleared only where the configuration does not change in the band:
\* the decoder that AACDEC_CLRHIST frees is built again for the same one.
ClearsKeepDecoder ==
  \A s \in Scenarios : s.clears = 0 \/ \A c, e \in s.configs : c = e

-----------------------------------------------------------------------------
\* The operations on the core decoder, field by field.
LEMMA ControlledFields ==
  ASSUME NEW d \in DecType, NEW flush \in BOOLEAN, NEW build \in BOOLEAN,
         NEW e, e = Controlled(d, flush, build)
  PROVE  /\ e \in DecType /\ e.config = d.config /\ e.hasAudioPreRoll = d.hasAudioPreRoll
         /\ e.flushStatus = flush /\ e.buildUp = build /\ e.buildUpCnt = 0 /\ e.output = d.output
         /\ e.since = d.since
<1> DEFINE n == 0
<1>1. n \in -128..127
  OBVIOUS
<1>2. e = [d EXCEPT !.flushStatus = flush, !.buildUp = build, !.buildUpCnt = n]
  BY DEF Controlled
<1>3. n = 0
  OBVIOUS
<1> HIDE DEF n
<1>4. e \in DecType
  BY <1>1, <1>2 DEF DecType
<1> QED BY <1>2, <1>3, <1>4 DEF DecType

LEMMA RebuiltFields ==
  ASSUME NEW d \in DecType, NEW c \in Configs, NEW e, e = Rebuilt(d, c)
  PROVE  /\ e \in DecType /\ e.config = c /\ e.hasAudioPreRoll = HasPreRoll(c)
         /\ e.flushStatus = d.flushStatus /\ e.buildUp = d.buildUp
         /\ e.buildUpCnt = d.buildUpCnt /\ e.output = d.output /\ e.since = 0
<1> DEFINE m == 0
           x == HasPreRoll(c)
<1>1. m \in 0..2 /\ x \in BOOLEAN
  BY DEF HasPreRoll
<1>2. e = [d EXCEPT !.config = c, !.hasAudioPreRoll = x, !.prev = FALSE, !.lastOk = TRUE,
                    !.since = m]
  BY DEF Rebuilt
<1>3. x = HasPreRoll(c) /\ m = 0
  OBVIOUS
<1> HIDE DEF m, x
<1>4. e \in DecType
  BY <1>1, <1>2 DEF DecType
<1> QED BY <1>1, <1>2, <1>3, <1>4 DEF DecType

LEMMA AppliedFields ==
  ASSUME NEW d \in DecType, NEW c \in Configs, HasPreRoll(c),
         d.config = c => d.hasAudioPreRoll, NEW e, e = Applied(d, c)
  PROVE  /\ e \in DecType /\ e.config = c /\ e.hasAudioPreRoll
         /\ e.flushStatus = d.flushStatus /\ e.buildUp = d.buildUp
         /\ e.buildUpCnt = d.buildUpCnt /\ e.output = d.output
BY RebuiltFields DEF Applied

\* The operations on the transport decoder.
LEMMA NoFlushFields ==
  ASSUME NEW t \in TpType, NEW u, u = NoFlush(t)
  PROVE  /\ u \in TpType /\ u.asc = t.asc /\ u.usacConfig = t.usacConfig /\ ~u.flushStatus
         /\ u.explicitChanged = t.explicitChanged /\ u.bare = t.bare
<1> DEFINE n == 0
<1>1. n \in 0..1
  OBVIOUS
<1>2. u = [t EXCEPT !.flushStatus = FALSE, !.flushCnt = n]
  BY DEF NoFlush
<1> HIDE DEF n
<1>3. u \in TpType
  BY <1>1, <1>2 DEF TpType
<1> QED BY <1>2, <1>3 DEF TpType

LEMMA FlushFields ==
  ASSUME NEW t \in TpType, t.flushCnt = 0,
         NEW u, u = [t EXCEPT !.flushStatus = TRUE, !.flushCnt = @ + 1]
  PROVE  /\ u \in TpType /\ u.asc = t.asc /\ u.usacConfig = t.usacConfig
         /\ u.flushStatus /\ u.flushCnt = 1 /\ u.explicitChanged = t.explicitChanged
         /\ u.bare = t.bare
<1> DEFINE n == 1
<1>1. n \in 0..1 /\ n = 1
  OBVIOUS
<1>2. u = [t EXCEPT !.flushStatus = TRUE, !.flushCnt = n]
  OBVIOUS
<1> HIDE DEF n
<1>3. u \in TpType
  BY <1>1, <1>2 DEF TpType
<1> QED BY <1>1, <1>2, <1>3 DEF TpType

\* transportDec_InBandConfig keeps a flush going for one frame, and ends it with
\* the decoder built for the new configuration or with an error.
InBandKept(t, d, k, c, r) ==
  /\ Good(r.tp, r.dec, k) /\ r.tp.asc # NoConfig /\ r.ok \in BOOLEAN
  /\ r.dec.flushStatus => r.diff /\ r.ok
  /\ r.ok /\ ~r.dec.flushStatus => r.tp.usacConfig = c
  /\ r.ok /\ r.dec.flushStatus => r.tp.usacConfig = t.usacConfig
  /\ ~r.ok => r.tp.usacConfig = t.usacConfig /\ c = Broken
  /\ \/ r.dec.since = d.since /\ r.dec.output = d.output
     \/ r.dec.buildUp /\ ~r.dec.flushStatus /\ r.dec.config # NoConfig
  /\ r.diff => r.dec.flushStatus
  /\ d.config = t.usacConfig => r.dec.config = r.tp.usacConfig
  /\ r.tp.bare => t.bare \/ (t.flushStatus /\ c # Broken)
  /\ r.dec.flushStatus => c # t.usacConfig

LEMMA InBandKeepsGood ==
  ASSUME NEW t, NEW d, NEW k \in Nat, Good(t, d, k), t.asc # NoConfig, ~Loas, NEW c,
         c # Broken => c \in Configs /\ HasPreRoll(c)
  PROVE  InBandKept(t, d, k, c, InBandConfig(t, d, c))
<1> DEFINE r == InBandConfig(t, d, c)
<1> SUFFICES InBandKept(t, d, k, c, r)
  OBVIOUS
<1>1. /\ t \in TpType /\ d \in DecType /\ Coupled(t, d) /\ CountedDown(d, k)
      /\ NoConfig \notin Configs /\ Broken \notin Configs /\ NoConfig # Broken
  BY ConfigAssumption DEF Good, NoConfig, Broken
<1>2. /\ t.asc = t.usacConfig /\ t.usacConfig \in Configs /\ t.flushStatus = d.flushStatus
      /\ ~t.explicitChanged /\ d.hasAudioPreRoll /\ d.config \in {NoConfig, t.usacConfig}
      /\ t.flushStatus => t.flushCnt = 1
  BY <1>1 DEF Coupled, TpType
<1>3. CASE t.flushStatus
  <2>1. r = FinishFlush(t, d, c, FALSE)
    <3>1. r = Advance(t, d, c, FALSE)
      BY <1>3 DEF InBandConfig
    <3>2. t.flushCnt = 1
      BY <1>2, <1>3
    <3> QED BY <3>1, <3>2 DEF Advance, TPDEC_USAC_NUM_CONFIG_CHANGE_FRAMES
  <2> HIDE DEF r
  <2> DEFINE u == NoFlush(t)
  <2>2. /\ u \in TpType /\ u.asc = t.asc /\ u.usacConfig = t.usacConfig /\ ~u.flushStatus
        /\ u.explicitChanged = t.explicitChanged /\ u.bare = t.bare
    BY <1>1, NoFlushFields
  <2>3. CASE c # Broken
    <3> DEFINE e == Controlled(d, FALSE, TRUE)
               v == [u EXCEPT !.asc = c, !.usacConfig = c, !.bare = TRUE]
    <3>1. r = InBand(v, Applied(e, c), FALSE, FALSE)
      BY <2>1, <2>3 DEF FinishFlush
    <3> HIDE DEF u
    <3>2. e \in DecType /\ e.hasAudioPreRoll /\ ~e.flushStatus /\ e.buildUp /\ e.buildUpCnt = 0
      BY <1>1, <1>2, ControlledFields
    <3>3. /\ v \in TpType /\ v.asc = c /\ v.usacConfig = c /\ ~v.flushStatus
          /\ v.explicitChanged = t.explicitChanged
      <4>1. c \in Configs /\ v = [u EXCEPT !.asc = c, !.usacConfig = c, !.bare = TRUE]
        BY <2>3
      <4> HIDE DEF v
      <4>2. u \in TpType /\ u.flushStatus = FALSE
        BY <2>2 DEF TpType
      <4>3. /\ v \in TpType /\ v.asc = c /\ v.usacConfig = c /\ v.flushStatus = u.flushStatus
            /\ v.explicitChanged = u.explicitChanged
        BY <4>1, <4>2 DEF TpType
      <4> QED BY <2>2, <4>2, <4>3
    <3> HIDE DEF e, v
    <3>4. r.tp = v /\ r.dec = Applied(e, c) /\ r.ok \in BOOLEAN /\ r.ok /\ ~r.diff
      BY <3>1 DEF InBand
    <3>5. /\ r.dec \in DecType /\ r.dec.config = c /\ r.dec.hasAudioPreRoll
          /\ ~r.dec.flushStatus /\ r.dec.buildUp /\ r.dec.buildUpCnt = 0
      BY <2>3, <3>2, <3>4, AppliedFields
    <3>6. CountedDown(r.dec, k)
      BY <3>5 DEF CountedDown
    <3>7. r.tp.flushStatus = FALSE /\ r.dec.flushStatus = FALSE
      BY <3>3, <3>4, <3>5 DEF TpType, DecType
    <3>8. Coupled(r.tp, r.dec)
      <4>1. HasPreRoll(r.tp.asc)
        BY <2>3, <3>3, <3>4
      <4> QED BY <1>2, <3>3, <3>4, <3>5, <3>7, <4>1 DEF Coupled
    <3>9. c # NoConfig
      BY <1>1, <2>3
    <3> QED BY <1>3, <2>3, <3>3, <3>4, <3>5, <3>6, <3>8, <3>9 DEF Good, InBandKept
  <2>4. CASE c = Broken
    <3> DEFINE e == Controlled(d, FALSE, FALSE)
    <3>1. r = InBand(u, e, TRUE, FALSE)
      BY <2>1, <2>4 DEF FinishFlush, InBandError
    <3> HIDE DEF u
    <3>2. /\ e \in DecType /\ e.config = d.config /\ e.hasAudioPreRoll
          /\ ~e.flushStatus /\ ~e.buildUp /\ e.buildUpCnt = 0
          /\ e.since = d.since /\ e.output = d.output
      <4>1. /\ e \in DecType /\ e.config = d.config /\ e.hasAudioPreRoll
            /\ ~e.flushStatus /\ ~e.buildUp /\ e.buildUpCnt = 0
        BY <1>1, <1>2, ControlledFields
      <4>2. e.since = d.since /\ e.output = d.output
        BY <1>1, ControlledFields
      <4> QED BY <4>1, <4>2
    <3> HIDE DEF e
    <3>3. r.tp = u /\ r.dec = e /\ r.ok \in BOOLEAN /\ ~r.ok /\ ~r.diff
      BY <3>1 DEF InBand
    <3>4. CountedDown(r.dec, k)
      BY <3>2, <3>3 DEF CountedDown
    <3>5. r.tp.flushStatus = FALSE /\ r.dec.flushStatus = FALSE
      BY <2>2, <3>2, <3>3 DEF TpType, DecType
    <3>6. Coupled(r.tp, r.dec)
      BY <1>1, <1>2, <2>2, <3>2, <3>3, <3>5 DEF Coupled
    <3> QED BY <1>1, <1>2, <2>2, <2>4, <3>2, <3>3, <3>4, <3>6 DEF Good, InBandKept
  <2> QED BY <2>3, <2>4
<1>4. CASE ~t.flushStatus /\ c = t.usacConfig
  <2>1. r = InBand(t, d, FALSE, FALSE)
    BY <1>2, <1>4 DEF InBandConfig
  <2> HIDE DEF r
  <2>2. r.tp = t /\ r.dec = d /\ r.ok \in BOOLEAN /\ r.ok /\ ~r.diff
    BY <2>1 DEF InBand
  <2> QED BY <1>1, <1>2, <1>4, <2>2 DEF InBandKept
<1>5. CASE ~t.flushStatus /\ c # t.usacConfig
  <2> DEFINE u == [t EXCEPT !.flushCnt = 0, !.explicitChanged = FALSE]
             v == [u EXCEPT !.flushStatus = TRUE, !.flushCnt = @ + 1]
             e == Controlled(d, TRUE, FALSE)
  <2>1. r = Advance(u, d, c, TRUE)
    BY <1>2, <1>5, Zenon DEF InBandConfig
  <2> HIDE DEF r
  <2>2. /\ u \in TpType /\ u.asc = t.asc /\ u.usacConfig = t.usacConfig /\ u.flushCnt = 0
        /\ ~u.explicitChanged /\ u.bare = t.bare
    <3> DEFINE n == 0
    <3>1. n \in 0..1 /\ n = 0 /\ u = [t EXCEPT !.flushCnt = n, !.explicitChanged = FALSE]
      OBVIOUS
    <3> HIDE DEF n, u
    <3>2. u \in TpType
      BY <1>1, <3>1 DEF TpType
    <3> QED BY <1>1, <3>1, <3>2 DEF TpType
  <2> HIDE DEF u
  <2>3. r = InBand(v, e, FALSE, TRUE)
    BY <2>1, <2>2 DEF Advance, TPDEC_USAC_NUM_CONFIG_CHANGE_FRAMES
  <2>4. /\ v \in TpType /\ v.asc = t.asc /\ v.usacConfig = t.usacConfig
        /\ v.flushStatus /\ ~v.explicitChanged /\ v.flushCnt = 1 /\ v.bare = t.bare
    BY <2>2, FlushFields
  <2>5. /\ e \in DecType /\ e.config = d.config /\ e.hasAudioPreRoll
        /\ e.flushStatus /\ ~e.buildUp /\ e.buildUpCnt = 0
        /\ e.since = d.since /\ e.output = d.output
    <3>1. /\ e \in DecType /\ e.config = d.config /\ e.hasAudioPreRoll
          /\ e.flushStatus /\ ~e.buildUp /\ e.buildUpCnt = 0
      BY <1>1, <1>2, ControlledFields
    <3>2. e.since = d.since /\ e.output = d.output
      BY <1>1, ControlledFields
    <3> QED BY <3>1, <3>2
  <2> HIDE DEF v, e
  <2>6. r.tp = v /\ r.dec = e /\ r.ok \in BOOLEAN /\ r.ok /\ r.diff
    BY <2>3 DEF InBand
  <2>7. CountedDown(r.dec, k)
    BY <2>5, <2>6 DEF CountedDown
  <2>8. r.tp.flushStatus = TRUE /\ r.dec.flushStatus = TRUE
    BY <2>4, <2>5, <2>6 DEF TpType, DecType
  <2>9. Coupled(r.tp, r.dec)
    BY <1>1, <1>2, <2>4, <2>5, <2>6, <2>8 DEF Coupled
  <2> QED BY <1>1, <1>2, <1>5, <2>4, <2>5, <2>6, <2>7, <2>9 DEF Good, InBandKept
<1> QED BY <1>3, <1>4, <1>5

-----------------------------------------------------------------------------
\* What the parser of the pre-roll leaves: a flush has begun, or the configuration
\* that was announced is in use.
ParseKept(p) ==
  /\ Good(p.tp, p.dec, clears) /\ p.tp.asc # NoConfig /\ p.ok \in BOOLEAN /\ p.n \in 0..3
  /\ p.dec.flushStatus => /\ au.ipf /\ au.cfg /\ au.damage # "Hidden"
                          /\ p.tp.usacConfig = tp.usacConfig
  /\ known /\ ~p.dec.flushStatus => p.tp.usacConfig = stream

LEMMA BuildUpKeepsGood ==
  ASSUME NEW r, Good(r.tp, r.dec, clears), r.tp.asc # NoConfig,
         r.dec.flushStatus => r.diff,
         r.dec.flushStatus => /\ au.ipf /\ au.cfg /\ au.damage # "Hidden"
                              /\ r.tp.usacConfig = tp.usacConfig,
         known /\ ~r.dec.flushStatus => r.tp.usacConfig = stream,
         au.preroll \in 0..3, clears \in Nat
  PROVE  ParseKept(BuildUpFirst(r))
<1> DEFINE first == ~r.dec.output /\ ~r.diff
           b == r.dec.buildUp \/ first
           n == IF r.dec.buildUp \/ first THEN au.preroll ELSE 0
           e == [r.dec EXCEPT !.buildUp = b]
           p == BuildUpFirst(r)
<1>1. /\ r.tp \in TpType /\ r.dec \in DecType /\ Coupled(r.tp, r.dec)
      /\ CountedDown(r.dec, clears)
  BY DEF Good
<1>2. ~(first /\ r.dec.flushStatus)
  OBVIOUS
<1>3. p = Parse(r.tp, [r.dec EXCEPT !.buildUp = @ \/ first], TRUE, n)
  BY <1>2 DEF BuildUpFirst
<1>4. p = Parse(r.tp, e, TRUE, n)
  BY <1>3
<1>5. n \in 0..3 /\ b \in BOOLEAN
  OBVIOUS
<1>6. (b <=> r.dec.buildUp \/ first) /\ (first => ~r.dec.output /\ ~r.diff)
  OBVIOUS
<1> SUFFICES ParseKept(p)
  OBVIOUS
<1> HIDE DEF first, b, n, p
<1>7. /\ e \in DecType /\ e.config = r.dec.config /\ e.hasAudioPreRoll = r.dec.hasAudioPreRoll
      /\ e.flushStatus = r.dec.flushStatus /\ e.buildUpCnt = r.dec.buildUpCnt
      /\ e.output = r.dec.output /\ e.buildUp = b
  BY <1>1, <1>5 DEF DecType
<1> HIDE DEF e
<1>8. p.tp = r.tp /\ p.dec = e /\ p.ok \in BOOLEAN /\ p.n = n
  BY <1>4 DEF Parse
<1>9. Coupled(p.tp, p.dec)
  <2>1. e.flushStatus => ~e.buildUp
    BY <1>1, <1>6, <1>7 DEF Coupled
  <2> QED BY <1>1, <1>7, <1>8, <2>1 DEF Coupled
<1>10. CountedDown(p.dec, clears)
  <2>1. r.dec.buildUpCnt \in Int
    BY <1>1 DEF DecType
  <2>2. e.output /\ ~e.buildUp <=> r.dec.output /\ ~r.dec.buildUp
    BY <1>6, <1>7
  <2> QED BY <1>1, <1>7, <1>8, <2>1, <2>2 DEF CountedDown
<1> QED BY <1>1, <1>5, <1>7, <1>8, <1>9, <1>10 DEF ParseKept, Good

\* The premises of the theorems, for the stream that is decoded.
LEMMA RawStream ==
  ASSUME RawStreams, IInv
  PROVE  /\ ~Loas /\ stream \in Configs /\ HasPreRoll(stream) /\ stream # NoConfig
         /\ scenario.clears \in 0..126 /\ clears \in Nat /\ clears <= 126
         /\ NoConfig \notin Configs /\ Broken \notin Configs /\ Broken # NoConfig
<1>1. scenario \in Scenarios /\ scenario \in Scenario /\ stream \in scenario.configs
      /\ clears \in 0..scenario.clears
  BY ConfigAssumption DEF IInv, Control
<1>2. scenario.transport = "Raw" /\ scenario.configs \subseteq PreRollConfigs /\ scenario.clears <= 126
  BY <1>1 DEF RawStreams
<1>3. scenario.clears \in Nat
  BY <1>1 DEF Scenario
<1>4. NoConfig \notin Configs /\ Broken \notin Configs /\ Broken # NoConfig
  BY ConfigAssumption DEF NoConfig, Broken
<1>5. stream \in PreRollConfigs /\ stream \in Configs
  BY <1>1, <1>2, ConfigAssumption
<1>6. clears \in Nat /\ clears <= 126
  BY <1>1, <1>2, <1>3
<1> QED BY <1>2, <1>3, <1>4, <1>5, <1>6 DEF Loas, HasPreRoll

LEMMA PreRollParseKeeps ==
  ASSUME RawStreams, IInv, pc = "Unit", op = "Decode", unit = 0
  PROVE  ParseKept(PreRollParse)
<1>1. /\ Good(tp, dec, clears) /\ tp.asc # NoConfig /\ au.of = stream /\ au \in AccessUnit
      /\ dec.flushStatus => au.ipf /\ au.cfg /\ au.damage # "Hidden"
      /\ known => \/ tp.usacConfig = stream
                  \/ au.ipf /\ au.cfg /\ au.damage \in {"None", "Units"}
  BY DEF IInv, Announced, Flushing
<1>2. au.preroll \in 0..3 /\ clears \in Nat
  <2>1. au.preroll \in PreRolls
    BY <1>1 DEF AccessUnit
  <2> QED BY <2>1, ConfigAssumption, RawStream
<1>3. tp \in TpType /\ dec \in DecType
  BY <1>1 DEF Good
<1>4. CASE ~au.ipf \/ au.damage = "Hidden"
  <2> DEFINE p == PreRollParse
             e == [dec EXCEPT !.flushStatus = FALSE]
  <2>1. p = Parse(tp, e, ~dec.flushStatus, 0)
    BY <1>4 DEF PreRollParse
  <2>2. dec.flushStatus = FALSE
    BY <1>1, <1>3, <1>4 DEF DecType
  <2>3. e = dec
    BY <1>3, <2>2 DEF DecType
  <2> SUFFICES ParseKept(p)
    OBVIOUS
  <2> HIDE DEF p, e
  <2>4. p.tp = tp /\ p.dec = dec /\ p.ok \in BOOLEAN /\ p.n = 0
    BY <2>1, <2>3 DEF Parse
  <2> QED BY <1>1, <1>4, <2>2, <2>4 DEF ParseKept
<1>5. CASE au.ipf /\ au.damage # "Hidden" /\ ~au.cfg
  <2> DEFINE r == InBand(tp, dec, FALSE, FALSE)
  <2>1. PreRollParse = IF r.ok THEN BuildUpFirst(r) ELSE Parse(r.tp, r.dec, FALSE, 0)
    BY <1>5 DEF PreRollParse
  <2>2. r.tp = tp /\ r.dec = dec /\ r.ok
    BY DEF InBand
  <2> HIDE DEF r
  <2>3. PreRollParse = BuildUpFirst(r)
    BY <2>1, <2>2
  <2>4. ~r.dec.flushStatus /\ (known => r.tp.usacConfig = stream)
    BY <1>1, <1>5, <2>2
  <2> QED BY <1>1, <1>2, <2>2, <2>3, <2>4, BuildUpKeepsGood
<1>6. CASE au.ipf /\ au.damage # "Hidden" /\ au.cfg
  <2> DEFINE c == IF au.damage = "Config" THEN Broken ELSE au.of
             r == InBandConfig(tp, dec, c)
  <2>1. PreRollParse = IF r.ok THEN BuildUpFirst(r) ELSE Parse(r.tp, r.dec, FALSE, 0)
    BY <1>6 DEF PreRollParse
  <2>2. c # Broken => c \in Configs /\ HasPreRoll(c)
    BY <1>1, RawStream
  <2>3. InBandKept(tp, dec, clears, c, r)
    BY <1>1, <1>2, <2>2, RawStream, InBandKeepsGood
  <2>4. c = Broken \/ c = stream
    BY <1>1
  <2>5. c = Broken => au.damage = "Config"
    BY <1>1, RawStream
  <2> HIDE DEF c, r
  <2>6. /\ Good(r.tp, r.dec, clears) /\ r.tp.asc # NoConfig /\ r.ok \in BOOLEAN
        /\ r.dec.flushStatus => r.diff /\ r.ok /\ r.tp.usacConfig = tp.usacConfig
        /\ ~r.ok => r.tp.usacConfig = tp.usacConfig /\ c = Broken /\ ~r.dec.flushStatus
        /\ r.ok /\ ~r.dec.flushStatus => r.tp.usacConfig = c
    BY <2>3 DEF InBandKept
  <2>7. CASE r.ok
    <3>1. ~r.dec.flushStatus => r.tp.usacConfig = stream
      <4>1. r.tp.usacConfig \in Configs \cup {NoConfig}
        BY <2>6 DEF Good, TpType
      <4> QED BY <2>4, <2>6, <2>7, <4>1, RawStream
    <3>2. PreRollParse = BuildUpFirst(r)
      BY <2>1, <2>7
    <3> QED BY <1>2, <1>6, <2>6, <3>1, <3>2, BuildUpKeepsGood
  <2>8. CASE ~r.ok
    <3> DEFINE p == PreRollParse
    <3>1. p = Parse(r.tp, r.dec, FALSE, 0)
      BY <2>1, <2>8
    <3> SUFFICES ParseKept(p)
      OBVIOUS
    <3> HIDE DEF p
    <3>2. p.tp = r.tp /\ p.dec = r.dec /\ p.ok \in BOOLEAN /\ p.n = 0
      BY <3>1 DEF Parse
    <3>3. known => p.tp.usacConfig = stream
      BY <1>1, <2>5, <2>6, <2>8, <3>2
    <3> QED BY <2>6, <2>8, <3>2, <3>3 DEF ParseKept
  <2> QED BY <2>7, <2>8
<1> QED BY <1>4, <1>5, <1>6

-----------------------------------------------------------------------------
\* What a pass over a unit leaves of the decoder but for its two flags.
SameDecoder(d, e) ==
  /\ e \in DecType /\ e.config = d.config /\ e.hasAudioPreRoll = d.hasAudioPreRoll
  /\ e.flushStatus = d.flushStatus /\ e.buildUp = d.buildUp
  /\ e.buildUpCnt = d.buildUpCnt /\ e.output = d.output

UnitKept(d, main, r) ==
  /\ SameDecoder(d, r.dec) /\ r.ok \in BOOLEAN
  /\ r.did \in {"NoOutput", "Concealed", "Flushed", "PreRoll", "Decoded"}
  /\ r.did \in {"Decoded", "PreRoll"} =>
       op \notin {"Conceal", "Flush"} /\ ~d.flushStatus /\ d.config # NoConfig
  /\ r.did = "Decoded" => main

LEMMA ConcealedKeeps ==
  ASSUME NEW d \in DecType, NEW fine \in BOOLEAN, NEW main
  PROVE  UnitKept(d, main, Concealed(d, fine))
<1> DEFINE r == Concealed(d, fine)
           e == [d EXCEPT !.prev = TRUE, !.lastOk = FALSE]
<1>1. r = Decoded(e, fine, "Concealed") \/ r = Decoded(d, fine, "NoOutput")
  BY DEF Concealed
<1>2. SameDecoder(d, e) /\ SameDecoder(d, d)
  BY DEF SameDecoder, DecType
<1> SUFFICES UnitKept(d, main, r)
  OBVIOUS
<1> HIDE DEF r, e
<1>3. CASE r = Decoded(e, fine, "Concealed")
  <2>1. r.dec = e /\ r.ok = fine /\ r.did = "Concealed"
    BY <1>3 DEF Decoded
  <2> QED BY <1>2, <2>1 DEF UnitKept
<1>4. CASE r = Decoded(d, fine, "NoOutput")
  <2>1. r.dec = d /\ r.ok = fine /\ r.did = "NoOutput"
    BY <1>4 DEF Decoded
  <2> QED BY <1>2, <2>1 DEF UnitKept
<1> QED BY <1>1, <1>3, <1>4

LEMMA DecodeUnitKeeps ==
  ASSUME NEW d \in DecType, NEW fine \in BOOLEAN, NEW main \in BOOLEAN, NEW independent, NEW bad
  PROVE  UnitKept(d, main, DecodeUnit(d, fine, main, independent, bad))
<1> DEFINE r == DecodeUnit(d, fine, main, independent, bad)
           played == IF main THEN "Decoded" ELSE "PreRoll"
           flushed == [d EXCEPT !.lastOk = TRUE]
           decoded == [d EXCEPT !.prev = TRUE, !.lastOk = TRUE]
<1>1. SameDecoder(d, d) /\ SameDecoder(d, flushed) /\ SameDecoder(d, decoded)
  <2>1. SameDecoder(d, flushed)
    BY DEF SameDecoder, DecType
  <2>2. SameDecoder(d, decoded)
    BY DEF SameDecoder, DecType
  <2>3. SameDecoder(d, d)
    BY DEF SameDecoder
  <2> QED BY <2>1, <2>2, <2>3
<1>2. \/ r = Concealed(d, fine) \/ r = Concealed(d, FALSE)
      \/ r = Decoded(d, fine, "NoOutput") \/ r = Decoded(d, TRUE, "NoOutput")
      \/ r = Decoded(flushed, TRUE, "Flushed")
      \/ /\ op \notin {"Conceal", "Flush"} /\ ~d.flushStatus /\ d.config # NoConfig
         /\ r = Decoded(decoded, TRUE, played)
  <2>1. CASE d.config = NoConfig
    BY <2>1 DEF DecodeUnit
  <2>2. CASE d.config # NoConfig /\ op = "Conceal"
    BY <2>2 DEF DecodeUnit
  <2>3. CASE d.config # NoConfig /\ op # "Conceal" /\ (op = "Flush" \/ d.flushStatus)
    BY <2>3 DEF DecodeUnit
  <2>4. CASE d.config # NoConfig /\ op # "Conceal" /\ ~(op = "Flush" \/ d.flushStatus)
    BY <2>4 DEF DecodeUnit
  <2> QED BY <2>1, <2>2, <2>3, <2>4
<1>3. played \in {"Decoded", "PreRoll"} /\ (played = "Decoded" => main)
  OBVIOUS
<1> SUFFICES UnitKept(d, main, r)
  OBVIOUS
<1> HIDE DEF r, played, flushed, decoded
<1>4. CASE r = Concealed(d, fine) \/ r = Concealed(d, FALSE)
  BY <1>4, ConcealedKeeps
<1>5. CASE r = Decoded(d, fine, "NoOutput") \/ r = Decoded(d, TRUE, "NoOutput")
  <2>1. r.dec = d /\ r.ok \in BOOLEAN /\ r.did = "NoOutput"
    <3>1. CASE r = Decoded(d, fine, "NoOutput")
      BY <3>1 DEF Decoded
    <3>2. CASE r = Decoded(d, TRUE, "NoOutput")
      BY <3>2 DEF Decoded
    <3> QED BY <1>5, <3>1, <3>2
  <2> QED BY <1>1, <2>1 DEF UnitKept
<1>6. CASE r = Decoded(flushed, TRUE, "Flushed")
  <2>1. r.dec = flushed /\ r.ok \in BOOLEAN /\ r.did = "Flushed"
    BY <1>6 DEF Decoded
  <2> QED BY <1>1, <2>1 DEF UnitKept
<1>7. CASE /\ op \notin {"Conceal", "Flush"} /\ ~d.flushStatus /\ d.config # NoConfig
           /\ r = Decoded(decoded, TRUE, played)
  <2>1. r.dec = decoded /\ r.ok \in BOOLEAN /\ r.did = played
    BY <1>7 DEF Decoded
  <2> QED BY <1>1, <1>3, <1>7, <2>1 DEF UnitKept
<1> QED BY <1>2, <1>4, <1>5, <1>6, <1>7

\* The end of a pass: a frame that has been rendered ends the build up.
AfterKept(d, f, k) ==
  /\ f \in DecType /\ f.config = d.config /\ f.hasAudioPreRoll = d.hasAudioPreRoll
  /\ f.flushStatus = d.flushStatus /\ (f.buildUp => d.buildUp) /\ CountedDown(f, k)

LEMMA RenderedKeeps ==
  ASSUME NEW d \in DecType, NEW k \in Nat, CountedDown(d, k), NEW e, e = Rendered(d)
  PROVE  AfterKept(d, e, k) /\ e.output /\ e.buildUp = d.buildUp
<1> DEFINE n == IF d.since < 2 THEN d.since + 1 ELSE d.since
<1>1. n \in 0..2
  BY DEF DecType
<1>2. e = [d EXCEPT !.output = TRUE, !.since = n]
  BY DEF Rendered
<1> HIDE DEF n
<1>3. e \in DecType
  BY <1>1, <1>2 DEF DecType
<1>4. /\ e.config = d.config /\ e.hasAudioPreRoll = d.hasAudioPreRoll
      /\ e.flushStatus = d.flushStatus /\ e.buildUp = d.buildUp
      /\ e.buildUpCnt = d.buildUpCnt /\ e.output
  BY <1>2 DEF DecType
<1>5. CountedDown(e, k)
  <2>1. d.buildUpCnt \in Int
    BY DEF DecType
  <2> QED BY <1>4, <2>1 DEF CountedDown
<1> QED BY <1>3, <1>4, <1>5 DEF AfterKept

LEMMA BuiltUpKeeps ==
  ASSUME NEW d \in DecType, NEW k \in 0..126, CountedDown(d, k), d.output \/ ~d.buildUp,
         NEW f, f = BuiltUp(d)
  PROVE  AfterKept(d, f, k) /\ ~f.buildUp
<1>1. CASE ~d.buildUp
  BY <1>1 DEF BuiltUp, AfterKept
<1>2. CASE d.buildUp
  <2> DEFINE n == d.buildUpCnt - 1
  <2>1. d.buildUpCnt \in Int /\ d.buildUpCnt <= 0 /\ 0 - d.buildUpCnt <= k
    BY <1>2 DEF CountedDown, DecType
  <2>2. n \in -128..127 /\ n < 0 /\ 0 - n <= k + 1 /\ d.buildUpCnt # -128
    BY <2>1
  <2>3. f = [d EXCEPT !.buildUpCnt = n, !.buildUp = n >= 0]
    BY <1>2, <2>2 DEF BuiltUp
  <2>4. (n >= 0) = FALSE
    BY <2>2
  <2> HIDE DEF n
  <2>5. f = [d EXCEPT !.buildUpCnt = n, !.buildUp = FALSE]
    BY <2>3, <2>4
  <2>6. f \in DecType
    BY <2>2, <2>5 DEF DecType
  <2>7. /\ f.config = d.config /\ f.hasAudioPreRoll = d.hasAudioPreRoll
        /\ f.flushStatus = d.flushStatus /\ ~f.buildUp /\ f.buildUpCnt = n /\ f.output = d.output
    BY <2>5 DEF DecType
  <2>8. CountedDown(f, k)
    <3>1. n \in Int
      BY <2>2
    <3> QED BY <1>2, <2>2, <2>7, <3>1 DEF CountedDown
  <2> QED BY <2>6, <2>7, <2>8 DEF AfterKept
<1> QED BY <1>1, <1>2

-----------------------------------------------------------------------------
\* A pass of the loop.  The pre-roll is parsed in the first one, if the decoder's
\* configuration has one.
LEMMA IterateKeepsInv ==
  ASSUME RawStreams, IInv, Iterate
  PROVE  IInv'
<1> DEFINE parsing == op = "Decode" /\ unit = 0 /\ dec.hasAudioPreRoll
           parse == IF parsing THEN PreRollParse ELSE Parse(tp, dec, TRUE, units - 1)
           main == unit >= parse.n
           fine == ok /\ parse.ok
<1>1. PICK bad \in BOOLEAN :
        LET r == DecodeUnit(parse.dec, fine, main, IF main THEN au.indep ELSE unit = 0, bad)
            unflushed == r.did = "NoOutput" /\ r.dec.flushStatus /\ op # "Conceal"
            shown == IF r.did = "NoOutput" THEN r.dec ELSE Rendered(r.dec)
            after == IF main THEN BuiltUp(shown) ELSE shown
            loop == Loop(after, unit, 1 + parse.n)
        IN  /\ tp' = parse.tp /\ units' = 1 + parse.n /\ ok' = r.ok /\ did' = r.did
            /\ IF r.did = "NoOutput" /\ ~unflushed
               THEN dec' = r.dec /\ pc' = "Idle" /\ unit' = unit
               ELSE dec' = after /\ pc' = loop.pc /\ unit' = loop.unit
  BY RawStream DEF Iterate
<1>2. /\ pc = "Unit" /\ scenario' = scenario /\ stream' = stream /\ op' = op /\ au' = au
      /\ clears' = clears /\ known' = known
  BY DEF Iterate
<1>3. /\ Good(tp, dec, clears) /\ Control /\ Flushing /\ Announced
      /\ clears \in 0..126 /\ units \in 1..4 /\ unit \in 0..3 /\ ok \in BOOLEAN
      /\ op \in {"Decode", "Conceal", "Flush"}
  BY <1>2, RawStream DEF IInv, Control
\* The configuration is parsed, or there is nothing to parse.
<1>4. /\ Good(parse.tp, parse.dec, clears) /\ parse.ok \in BOOLEAN /\ parse.n \in 0..3
      /\ tp.asc # NoConfig => parse.tp.asc # NoConfig
      /\ tp.asc = NoConfig => parse.dec.config = NoConfig
      /\ parse.dec.flushStatus => op = "Decode" /\ unit = 0 /\ au.ipf /\ au.cfg /\ au.damage # "Hidden"
                                  /\ parse.tp.usacConfig = tp.usacConfig
      /\ known /\ ~parse.dec.flushStatus => parse.tp.usacConfig = stream
  <2>1. CASE parsing
    <3>1. ParseKept(parse)
      BY <1>2, <2>1, PreRollParseKeeps
    <3>2. tp.asc # NoConfig
      BY <1>2, <1>3, <2>1 DEF Announced
    <3> HIDE DEF parse
    <3> QED BY <2>1, <3>1, <3>2 DEF ParseKept
  <2>2. CASE ~parsing
    <3>1. parse = Parse(tp, dec, TRUE, units - 1)
      BY <2>2
    <3> HIDE DEF parse
    <3>2. parse.tp = tp /\ parse.dec = dec /\ parse.ok \in BOOLEAN /\ parse.n = units - 1
      BY <3>1 DEF Parse
    <3>3. units - 1 \in 0..3
      BY <1>3
    <3>4. op # "Decode" \/ unit # 0 \/ ~dec.hasAudioPreRoll
      BY <2>2
    <3>5. op = "Decode" => dec.hasAudioPreRoll
      BY <1>2, <1>3 DEF Announced, Good, Coupled
    <3>6. ~dec.flushStatus /\ (known => tp.usacConfig = stream)
      BY <1>3, <3>4, <3>5 DEF Flushing, Announced
    <3>7. tp.asc = NoConfig => dec.config = NoConfig
      BY <1>3 DEF Good, Coupled
    <3> QED BY <1>3, <3>2, <3>3, <3>6, <3>7
  <2> QED BY <2>1, <2>2
<1>5. main \in BOOLEAN /\ fine \in BOOLEAN
  OBVIOUS
<1> HIDE DEF parsing, parse, main, fine
<1> DEFINE independent == IF main THEN au.indep ELSE unit = 0
           r == DecodeUnit(parse.dec, fine, main, independent, bad)
           shown == IF r.did = "NoOutput" THEN r.dec ELSE Rendered(r.dec)
           after == IF main THEN BuiltUp(shown) ELSE shown
           loop == Loop(after, unit, 1 + parse.n)
<1>6. /\ tp' = parse.tp /\ units' = 1 + parse.n /\ ok' = r.ok /\ did' = r.did
      /\ \/ /\ r.did = "NoOutput" /\ ~(r.dec.flushStatus /\ op # "Conceal")
            /\ dec' = r.dec /\ pc' = "Idle" /\ unit' = unit
         \/ /\ r.did = "NoOutput" => r.dec.flushStatus /\ op # "Conceal"
            /\ dec' = after /\ pc' = loop.pc /\ unit' = loop.unit
  BY <1>1
<1>7. parse.dec \in DecType /\ CountedDown(parse.dec, clears)
      /\ Coupled(parse.tp, parse.dec) /\ parse.tp \in TpType
  BY <1>4 DEF Good
<1>8. UnitKept(parse.dec, main, r)
  BY <1>5, <1>7, DecodeUnitKeeps
<1>9. loop = [pc |-> IF (IF after.flushStatus THEN unit ELSE unit + 1) < 1 + parse.n
                        \/ (after.flushStatus /\ op # "Conceal") THEN "Unit" ELSE "Idle",
              unit |-> IF after.flushStatus THEN unit ELSE unit + 1]
  BY DEF Loop
<1> HIDE DEF independent, r
\* What it leaves of the decoder.
<1>10. /\ r.dec \in DecType /\ CountedDown(r.dec, clears) /\ AfterKept(parse.dec, r.dec, clears)
       /\ r.dec.flushStatus => ~r.dec.buildUp
  <2>1. SameDecoder(parse.dec, r.dec)
    BY <1>8 DEF UnitKept
  <2>2. CountedDown(r.dec, clears)
    BY <1>7, <2>1 DEF SameDecoder, CountedDown
  <2> QED BY <1>7, <2>1, <2>2 DEF SameDecoder, AfterKept, Coupled
<1>11. ASSUME r.did = "NoOutput" => r.dec.flushStatus
       PROVE  AfterKept(r.dec, after, clears) /\ (main => ~after.buildUp)
  <2>1. clears \in Nat
    BY <1>3
  <2>2. AfterKept(r.dec, shown, clears) /\ (shown.output \/ ~shown.buildUp)
    <3>1. CASE r.did = "NoOutput"
      BY <1>10, <1>11, <3>1 DEF AfterKept
    <3>2. CASE r.did # "NoOutput"
      BY <1>10, <2>1, <3>2, RenderedKeeps
    <3> QED BY <3>1, <3>2
  <2> HIDE DEF shown
  <2>3. CASE main
    <3>1. shown \in DecType /\ CountedDown(shown, clears)
      BY <2>2 DEF AfterKept
    <3>2. after = BuiltUp(shown)
      BY <2>3
    <3> HIDE DEF after
    <3>3. AfterKept(shown, after, clears) /\ ~after.buildUp
      BY <1>3, <2>2, <3>1, <3>2, BuiltUpKeeps
    <3> QED BY <2>2, <3>3 DEF AfterKept
  <2>4. CASE ~main
    BY <2>2, <2>4
  <2> QED BY <2>3, <2>4
<1> HIDE DEF shown, after, loop
<1>12. /\ AfterKept(parse.dec, dec', clears)
       /\ r.did = "Decoded" => ~dec'.buildUp
  <2>1. CASE dec' = r.dec /\ r.did = "NoOutput"
    BY <1>10, <2>1
  <2>2. CASE dec' = after /\ (r.did = "NoOutput" => r.dec.flushStatus)
    <3>1. AfterKept(r.dec, after, clears) /\ (main => ~after.buildUp)
      BY <1>11, <2>2
    <3>2. r.did = "Decoded" => main
      BY <1>8 DEF UnitKept
    <3> QED BY <1>10, <2>2, <3>1, <3>2 DEF AfterKept
  <2> QED BY <1>6, <2>1, <2>2
<1>13. Good(tp', dec', clears')
  <2>1. Coupled(tp', dec')
    BY <1>6, <1>7, <1>12 DEF Coupled, AfterKept
  <2> QED BY <1>2, <1>6, <1>7, <1>12, <2>1 DEF Good, AfterKept
\* Where the loop goes on.
<1>14. /\ pc' \in {"Idle", "Unit"} /\ unit' \in 0..4 /\ (pc' = "Unit" => unit' <= 3)
       /\ dec'.flushStatus => pc' = "Unit" /\ unit' = 0
  <2>1. dec'.flushStatus = parse.dec.flushStatus
    BY <1>12 DEF AfterKept
  <2>2. parse.dec.flushStatus => op = "Decode" /\ unit = 0
    BY <1>4
  <2>3. parse.n \in 0..3 /\ unit \in 0..3
    BY <1>3, <1>4
  <2>4. CASE r.did = "NoOutput" /\ ~(r.dec.flushStatus /\ op # "Conceal")
             /\ dec' = r.dec /\ pc' = "Idle" /\ unit' = unit
    BY <2>1, <2>2, <2>3, <2>4
  <2>5. CASE dec' = after /\ pc' = loop.pc /\ unit' = loop.unit
    <3> DEFINE n == IF after.flushStatus THEN unit ELSE unit + 1
    <3>1. unit' = n /\ pc' = IF n < 1 + parse.n \/ (after.flushStatus /\ op # "Conceal")
                             THEN "Unit" ELSE "Idle"
      BY <1>9, <2>5
    <3>2. n \in 0..4 /\ (after.flushStatus => n = 0 /\ op # "Conceal") /\ (n < 1 + parse.n => n <= 3)
      BY <2>1, <2>2, <2>3, <2>5
    <3>3. after.flushStatus => n <= 3
      BY <3>2
    <3> HIDE DEF n
    <3> QED BY <2>5, <3>1, <3>2, <3>3
  <2> QED BY <1>6, <2>4, <2>5
<1>15. Control'
  <2>1. units' \in 1..4
    BY <1>4, <1>6
  <2>2. ok' \in BOOLEAN
        /\ did' \in {"Nothing", "NoSync", "NoOutput", "Concealed", "Flushed", "PreRoll", "Decoded"}
    BY <1>6, <1>8 DEF UnitKept
  <2> QED BY <1>2, <1>3, <1>14, <2>1, <2>2 DEF Control
<1>16. dec'.flushStatus = parse.dec.flushStatus /\ dec'.config = parse.dec.config
  BY <1>12 DEF AfterKept
<1>17. Flushing'
  BY <1>2, <1>4, <1>14, <1>16 DEF Flushing
<1>18. Announced'
  <2>1. op = "Decode" => au.of = stream /\ au \in AccessUnit /\ tp.asc # NoConfig
    BY <1>2, <1>3 DEF Announced
  <2>2. pc' = "Unit" /\ op' = "Decode" =>
          au'.of = stream' /\ au' \in AccessUnit' /\ tp'.asc # NoConfig
    BY <1>2, <1>4, <1>6, <2>1 DEF AccessUnit
  <2>3. known => \/ tp.usacConfig = stream
                 \/ au.ipf /\ au.cfg /\ au.damage \in {"None", "Units"}
    BY <1>3 DEF Announced
  <2>4. known' => \/ tp'.usacConfig = stream'
                  \/ /\ pc' = "Unit" /\ op' = "Decode" /\ unit' = 0
                     /\ au'.ipf /\ au'.cfg /\ au'.damage \in {"None", "Units"}
    <3>1. CASE parse.dec.flushStatus
      BY <1>2, <1>4, <1>6, <1>14, <1>16, <2>3, <3>1
    <3>2. CASE ~parse.dec.flushStatus
      BY <1>2, <1>4, <1>6, <3>2
    <3> QED BY <3>1, <3>2
  <2>5. tp'.asc = NoConfig => did' \notin {"Decoded", "PreRoll"}
    <3>1. tp'.asc = NoConfig => parse.dec.config = NoConfig
      BY <1>4, <1>6
    <3> QED BY <1>6, <1>8, <3>1 DEF UnitKept
  <2> QED BY <2>2, <2>4, <2>5 DEF Announced
<1>19. DecodesWithItsConfig'
  <2>1. SUFFICES ASSUME did' \in {"Decoded", "PreRoll"}, known
                 PROVE  dec'.config = au.of
    BY <1>2 DEF DecodesWithItsConfig
  <2>2. op \notin {"Conceal", "Flush"} /\ ~parse.dec.flushStatus /\ parse.dec.config # NoConfig
    BY <1>6, <1>8, <2>1 DEF UnitKept
  <2>3. op = "Decode" /\ au.of = stream
    BY <1>2, <1>3, <2>2 DEF Announced
  <2>4. parse.tp.usacConfig = stream /\ parse.dec.config = parse.tp.usacConfig
    BY <1>4, <1>7, <2>1, <2>2 DEF Coupled
  <2> QED BY <1>16, <2>3, <2>4
<1>20. FlushCompletes'
  <2>1. pc' = "Idle" => ~dec'.flushStatus /\ ~tp'.flushStatus
    BY <1>13, <1>14 DEF Good, Coupled
  <2>2. did' = "Decoded" => ~dec'.buildUp
    BY <1>6, <1>12
  <2> QED BY <2>1, <2>2 DEF FlushCompletes
<1> QED BY <1>13, <1>15, <1>17, <1>18, <1>19, <1>20 DEF IInv

-----------------------------------------------------------------------------
\* AACDEC_CLRHIST frees the decoder or builds it again; the next frame is the
\* first one again.
LEMMA ClearKeeps ==
  ASSUME RawStreams, IInv, pc = "Idle", NEW clear \in BOOLEAN, Clear(clear)
  PROVE  LET c == AfterClear(clear)
         IN  /\ Good(c.tp, c.dec, clears') /\ clears' \in 0..scenario.clears
             /\ c.tp.asc = tp.asc /\ c.tp.usacConfig = tp.usacConfig /\ ~c.dec.flushStatus
<1> DEFINE c == AfterClear(clear)
<1>1. /\ tp \in TpType /\ dec \in DecType /\ Coupled(tp, dec) /\ CountedDown(dec, clears)
      /\ clears \in 0..scenario.clears /\ scenario.clears \in Nat /\ clears \in Nat
      /\ ~dec.flushStatus /\ ~Loas
  BY RawStream DEF IInv, Good, Control, FlushCompletes
<1>2. CASE ~clear
  <2>1. c = [tp |-> tp, dec |-> dec] /\ clears' = clears
    BY <1>2 DEF AfterClear, Clear
  <2> QED BY <1>1, <2>1 DEF Good
<1>3. CASE clear
  <2>1. c = Cleared(tp, dec) /\ clears' = clears + 1 /\ clears' \in 0..scenario.clears
    BY <1>1, <1>3 DEF AfterClear, Clear
  <2>2. CASE tp.asc = NoConfig
    <3>1. c = [tp |-> tp, dec |-> dec]
      BY <2>1, <2>2 DEF Cleared
    <3>2. CountedDown(dec, clears')
      <4>1. dec.buildUpCnt \in Int
        BY <1>1 DEF DecType
      <4> QED BY <1>1, <2>1, <4>1 DEF CountedDown
    <3> QED BY <1>1, <2>1, <3>1, <3>2 DEF Good
  <2>3. CASE tp.asc # NoConfig
    <3> DEFINE free == [Freed(dec) EXCEPT !.output = FALSE]
               u == IF tp.bare THEN tp.usacConfig ELSE tp.asc
               t == [tp EXCEPT !.usacConfig = u]
               d == IF tp.bare THEN free ELSE Rebuilt(free, tp.asc)
    <3>1. c = [tp |-> t, dec |-> d]
      <4>1. c = [tp |-> [tp EXCEPT !.usacConfig = IF tp.bare THEN @ ELSE tp.asc], dec |-> d]
        BY <1>1, <2>1, <2>3 DEF Cleared
      <4> QED BY <4>1
    <3>2. u = tp.usacConfig
      BY <1>1 DEF Coupled
    <3>3. t = tp
      BY <1>1, <3>2 DEF TpType
    <3>4. /\ free \in DecType /\ free.config = NoConfig /\ free.hasAudioPreRoll = dec.hasAudioPreRoll
          /\ free.flushStatus = dec.flushStatus /\ free.buildUp = dec.buildUp
          /\ free.buildUpCnt = dec.buildUpCnt /\ ~free.output
      <4>1. free = [dec EXCEPT !.config = NoConfig, !.output = FALSE]
        BY DEF Freed
      <4> HIDE DEF free
      <4>2. free \in DecType
        BY <1>1, <4>1 DEF DecType
      <4> QED BY <1>1, <4>1, <4>2 DEF DecType
    <3>5. tp.asc \in Configs /\ tp.asc = tp.usacConfig /\ dec.hasAudioPreRoll
      BY <1>1, <2>3 DEF TpType, Coupled
    <3>6. HasPreRoll(tp.asc)
      BY <1>1, <2>3 DEF Coupled
    <3> HIDE DEF free, u, t
    <3>7. /\ d \in DecType /\ d.config \in {NoConfig, tp.asc} /\ d.hasAudioPreRoll
          /\ d.flushStatus = dec.flushStatus /\ d.buildUp = dec.buildUp
          /\ d.buildUpCnt = dec.buildUpCnt /\ ~d.output
      <4>1. CASE tp.bare
        BY <3>4, <3>5, <4>1
      <4>2. CASE ~tp.bare
        <5>1. d = Rebuilt(free, tp.asc)
          BY <4>2
        <5> HIDE DEF d
        <5>2. /\ d \in DecType /\ d.config = tp.asc /\ d.hasAudioPreRoll = HasPreRoll(tp.asc)
              /\ d.flushStatus = free.flushStatus /\ d.buildUp = free.buildUp
              /\ d.buildUpCnt = free.buildUpCnt /\ d.output = free.output
          BY <3>4, <3>5, <5>1, RebuiltFields
        <5> QED BY <3>4, <3>6, <5>2
      <4> QED BY <4>1, <4>2
    <3> HIDE DEF d
    <3>8. c.tp = tp /\ c.dec = d
      BY <3>1, <3>3
    <3>9. CountedDown(d, clears')
      <4>1. dec.buildUpCnt \in Int
        BY <1>1 DEF DecType
      <4> QED BY <1>1, <2>1, <3>7, <4>1 DEF CountedDown
    <3>10. Coupled(tp, d)
      BY <1>1, <3>5, <3>7 DEF Coupled
    <3> QED BY <1>1, <2>1, <3>7, <3>8, <3>9, <3>10 DEF Good
  <2> QED BY <2>2, <2>3
<1> QED BY <1>2, <1>3

\* What a new call and the events between calls leave alone.
LEMMA OthersKeepInv ==
  ASSUME RawStreams, IInv,
         \/ \E u \in Coming : Lose(u)
         \/ \E u \in Coming, clear \in BOOLEAN : BeginDecode(u, clear)
         \/ \E what \in {"Conceal", "Flush"}, clear \in BOOLEAN : BeginOther(what, clear)
         \/ Configure
         \/ UNCHANGED vars
  PROVE  IInv'
<1>1. /\ Good(tp, dec, clears) /\ Control /\ Flushing /\ Announced
      /\ DecodesWithItsConfig /\ FlushCompletes
  BY DEF IInv
<1>2. \A u \in Coming : u \in AccessUnit /\ u.of \in scenario.configs /\ (u.cfg => u.ipf)
  BY DEF Coming, AccessUnit
<1>3. CASE \E u \in Coming : Lose(u)
  <2>1. PICK u \in Coming : Lose(u)
    BY <1>3
  <2>2. /\ pc = "Idle" /\ stream' = u.of /\ known' = (known /\ u.of = stream)
        /\ UNCHANGED <<scenario, tp, dec, pc, op, au, unit, units, ok, did, clears>>
    BY <2>1 DEF Lose
  <2>3. Control'
    BY <1>1, <1>2, <2>2 DEF Control, AccessUnit
  <2>4. Flushing' /\ Announced' /\ DecodesWithItsConfig' /\ FlushCompletes'
    BY <1>1, <2>2 DEF Flushing, Announced, DecodesWithItsConfig, FlushCompletes, AccessUnit
  <2> QED BY <1>1, <2>2, <2>3, <2>4 DEF IInv
<1>4. CASE \E u \in Coming, clear \in BOOLEAN : BeginDecode(u, clear)
  <2>1. PICK u \in Coming, clear \in BOOLEAN : BeginDecode(u, clear)
    BY <1>4
  <2> DEFINE c == AfterClear(clear)
  <2>a. u \in AccessUnit /\ u.of \in scenario.configs /\ (u.cfg => u.ipf)
    BY <1>2
  <2>2. /\ pc = "Idle" /\ Clear(clear) /\ tp.asc # NoConfig /\ Arrived(u) /\ au' = u
        /\ tp' = c.tp /\ dec' = c.dec /\ scenario' = scenario /\ Enter("Decode")
    <3>1. ~Loas
      BY RawStream
    <3> QED BY <2>1, <3>1 DEF BeginDecode, Read
  <2>3. /\ Good(c.tp, c.dec, clears') /\ clears' \in 0..scenario.clears
        /\ c.tp.asc = tp.asc /\ c.tp.usacConfig = tp.usacConfig /\ ~c.dec.flushStatus
    BY <2>2, ClearKeeps
  <2> HIDE DEF c
  <2>4. /\ pc' = "Unit" /\ op' = "Decode" /\ unit' = 0 /\ units' = 1 /\ ok' = TRUE
        /\ did' = "Nothing"
    BY <2>2 DEF Enter
  <2>5. /\ stream' = u.of
        /\ known' = IF Announces(u) /\ u.damage \in {"None", "Units"} THEN TRUE
                    ELSE known /\ u.of = stream
    BY <2>2 DEF Arrived
  <2>6. Announces(u) <=> u.cfg
    BY RawStream DEF Announces
  <2>7. known' \in BOOLEAN
    BY <1>1, <2>5 DEF Control
  <2>8. Control'
    <3>1. au' \in AccessUnit' /\ stream' \in scenario'.configs /\ scenario' \in Scenarios
      BY <1>1, <2>a, <2>2, <2>5 DEF Control, AccessUnit
    <3>2. clears' \in 0..scenario'.clears
      BY <2>2, <2>3
    <3> QED BY <2>4, <2>7, <3>1, <3>2 DEF Control
  <2>9. Flushing' /\ DecodesWithItsConfig' /\ FlushCompletes'
    BY <2>2, <2>3, <2>4 DEF Flushing, DecodesWithItsConfig, FlushCompletes
  <2>10. known => tp.usacConfig = stream
    BY <1>1, <2>2 DEF Announced
  <2>11. Announced'
    <3>1. known' => \/ tp'.usacConfig = stream'
                    \/ u.ipf /\ u.cfg /\ u.damage \in {"None", "Units"}
      <4>1. u.cfg /\ u.damage \in {"None", "Units"} => u.ipf
        BY <2>a
      <4>2. tp'.usacConfig = tp.usacConfig /\ stream' = u.of
        BY <2>2, <2>3, <2>5
      <4>3. CASE Announces(u) /\ u.damage \in {"None", "Units"}
        BY <2>6, <4>1, <4>3
      <4>4. CASE ~(Announces(u) /\ u.damage \in {"None", "Units"})
        <5>1. known' = (known /\ u.of = stream)
          BY <2>5, <4>4
        <5>2. known' => known /\ u.of = stream
          BY <5>1
        <5>3. known' => tp.usacConfig = u.of
          BY <2>10, <5>2
        <5> QED BY <4>2, <5>3
      <4> QED BY <4>3, <4>4
    <3> QED BY <2>a, <2>2, <2>3, <2>4, <2>5, <3>1 DEF Announced, AccessUnit
  <2> QED BY <2>2, <2>3, <2>8, <2>9, <2>11 DEF IInv
<1>5. CASE \E what \in {"Conceal", "Flush"}, clear \in BOOLEAN : BeginOther(what, clear)
  <2>1. PICK what \in {"Conceal", "Flush"}, clear \in BOOLEAN : BeginOther(what, clear)
    BY <1>5
  <2> DEFINE c == AfterClear(clear)
  <2>2. /\ pc = "Idle" /\ Clear(clear) /\ tp' = c.tp /\ dec' = c.dec /\ Enter(what)
        /\ UNCHANGED <<scenario, stream, au, known>>
    BY <2>1 DEF BeginOther
  <2>3. /\ Good(c.tp, c.dec, clears') /\ clears' \in 0..scenario.clears
        /\ c.tp.asc = tp.asc /\ c.tp.usacConfig = tp.usacConfig /\ ~c.dec.flushStatus
    BY <2>2, ClearKeeps
  <2> HIDE DEF c
  <2>4. /\ pc' = "Unit" /\ op' = what /\ unit' = 0 /\ units' = 1 /\ ok' = TRUE
        /\ did' = "Nothing"
    BY <2>2 DEF Enter
  <2>5. Control'
    BY <1>1, <2>2, <2>3, <2>4 DEF Control, AccessUnit
  <2>6. Flushing' /\ DecodesWithItsConfig' /\ FlushCompletes'
    BY <2>2, <2>3, <2>4 DEF Flushing, DecodesWithItsConfig, FlushCompletes
  <2>7. known => tp.usacConfig = stream
    BY <1>1, <2>2 DEF Announced
  <2>8. Announced'
    BY <2>1, <2>2, <2>3, <2>4, <2>7 DEF Announced
  <2> QED BY <2>2, <2>3, <2>5, <2>6, <2>8 DEF IInv
<1>6. CASE Configure
  <2>1. /\ pc = "Idle" /\ tp.asc = NoConfig /\ dec' = Rebuilt(dec, stream) /\ known' = TRUE
        /\ tp' = [tp EXCEPT !.asc = stream, !.usacConfig = stream]
        /\ UNCHANGED <<scenario, stream, pc, op, au, unit, units, ok, did, clears>>
    BY <1>6 DEF Configure
  <2>2. tp \in TpType /\ dec \in DecType /\ Coupled(tp, dec) /\ CountedDown(dec, clears)
    BY <1>1 DEF Good
  <2>3. /\ stream \in Configs /\ HasPreRoll(stream) /\ stream # NoConfig
    BY RawStream
  <2>4. /\ tp' \in TpType /\ tp'.asc = stream /\ tp'.usacConfig = stream
        /\ tp'.flushStatus = tp.flushStatus /\ tp'.explicitChanged = tp.explicitChanged
    BY <2>1, <2>2, <2>3 DEF TpType
  <2>5. /\ dec' \in DecType /\ dec'.config = stream /\ dec'.hasAudioPreRoll = HasPreRoll(stream)
        /\ dec'.flushStatus = dec.flushStatus /\ dec'.buildUp = dec.buildUp
        /\ dec'.buildUpCnt = dec.buildUpCnt /\ dec'.output = dec.output
    <3> DEFINE e == Rebuilt(dec, stream)
    <3>1. dec' = e /\ e = Rebuilt(dec, stream)
      BY <2>1
    <3> HIDE DEF e
    <3>2. /\ e \in DecType /\ e.config = stream /\ e.hasAudioPreRoll = HasPreRoll(stream)
          /\ e.flushStatus = dec.flushStatus /\ e.buildUp = dec.buildUp
          /\ e.buildUpCnt = dec.buildUpCnt /\ e.output = dec.output
      <4>1. dec \in DecType /\ stream \in Configs
        BY <2>2, <2>3
      <4> QED BY <3>1, <4>1, RebuiltFields
    <3> QED BY <2>1, <3>1, <3>2
  <2>6. ~dec.flushStatus /\ ~tp.flushStatus
    BY <1>1, <2>1 DEF FlushCompletes
  <2>7. Coupled(tp', dec')
    <3>1. tp'.flushStatus = dec'.flushStatus
      BY <2>2, <2>4, <2>5 DEF Coupled
    <3> QED BY <2>2, <2>3, <2>4, <2>5, <2>6, <3>1 DEF Coupled
  <2>8. CountedDown(dec', clears')
    BY <2>1, <2>2, <2>5 DEF CountedDown
  <2>9. Control'
    BY <1>1, <2>1 DEF Control, AccessUnit
  <2>10. Flushing' /\ FlushCompletes'
    BY <1>1, <2>1, <2>4, <2>5, <2>6 DEF Flushing, FlushCompletes
  <2>11. did \notin {"Decoded", "PreRoll"}
    BY <1>1, <2>1 DEF Announced
  <2>12. Announced' /\ DecodesWithItsConfig'
    BY <2>1, <2>3, <2>4, <2>11 DEF Announced, DecodesWithItsConfig
  <2> QED BY <2>4, <2>5, <2>7, <2>8, <2>9, <2>10, <2>12 DEF IInv, Good
<1>7. CASE UNCHANGED vars
  <2>1. UNCHANGED <<scenario, stream, tp, dec, pc, op, au, unit, units, ok, did, clears, known>>
    BY <1>7 DEF vars
  <2>2. Control' /\ Flushing' /\ Announced' /\ DecodesWithItsConfig' /\ FlushCompletes'
    BY <1>1, <2>1 DEF Control, Flushing, Announced, DecodesWithItsConfig, FlushCompletes, AccessUnit
  <2> QED BY <1>1, <2>1, <2>2 DEF IInv
<1> QED BY <1>3, <1>4, <1>5, <1>6, <1>7

LEMMA InitSound ==
  ASSUME RawStreams, Init
  PROVE  IInv
<1>1. /\ scenario \in Scenarios /\ stream \in scenario.configs /\ scenario.clears \in Nat
  BY ConfigAssumption DEF Init, Scenario
<1>2. /\ tp = InitTp /\ dec = InitDec
      /\ pc = "Idle" /\ op = "Decode" /\ au = NoUnit
      /\ unit = 0 /\ units = 1 /\ ok = TRUE /\ did = "Nothing"
      /\ clears = 0 /\ known = FALSE
  BY DEF Init
<1>3. tp \in TpType
  BY <1>2 DEF InitTp, TpType
<1>4. dec \in DecType
  BY <1>2 DEF InitDec, DecType
<1>5. Coupled(tp, dec) /\ CountedDown(dec, clears)
  BY <1>2 DEF InitTp, InitDec, Coupled, CountedDown
<1>6. Control
  <2>1. clears \in 0..scenario.clears
    BY <1>1, <1>2
  <2>2. au \in AccessUnit \cup {NoUnit}
    BY <1>2
  <2>3. /\ unit \in 0..4 /\ unit <= 3 /\ units \in 1..4
        /\ pc \in {"Idle", "Unit"} /\ op \in {"Decode", "Conceal", "Flush"} /\ did = "Nothing"
    BY <1>2
  <2>4. ok \in BOOLEAN /\ known \in BOOLEAN
    BY <1>2, Zenon
  <2> QED BY <1>1, <2>1, <2>2, <2>3, <2>4 DEF Control
<1>7. Flushing /\ Announced /\ DecodesWithItsConfig /\ FlushCompletes
  BY <1>2 DEF Flushing, Announced, DecodesWithItsConfig, FlushCompletes, InitTp, InitDec
<1> QED BY <1>3, <1>4, <1>5, <1>6, <1>7 DEF IInv, Good

LEMMA Invariant == ASSUME RawStreams PROVE Spec => []IInv
<1>1. Init => IInv
  BY InitSound
<1>2. IInv /\ [Next]_vars => IInv'
  BY IterateKeepsInv, OthersKeepInv DEF Next
<1> QED BY <1>1, <1>2, PTL DEF Spec

-----------------------------------------------------------------------------
\* The state of the two decoders stays in range: above all the counter of the
\* build up, which nothing but a configuration change sets back.
THEOREM ConfigTypeCorrect == ASSUME RawStreams PROVE Spec => []TypeOK
<1>1. IInv => TypeOK
  BY DEF IInv, Good, Control, TpType, DecType, TypeOK, TPDEC_USAC_NUM_CONFIG_CHANGE_FRAMES
<1> QED BY <1>1, Invariant, PTL

\* No access unit and no pre-roll is decoded by CAacDecoder_DecodeFrame with the
\* decoder of another configuration, once the configuration has been announced.
THEOREM RightDecoder == ASSUME RawStreams PROVE Spec => []DecodesWithItsConfig
<1>1. IInv => DecodesWithItsConfig
  BY DEF IInv
<1> QED BY <1>1, Invariant, PTL

\* The flush of a configuration change is over, in the transport decoder and in the
\* core decoder, when the call of aacDecoder_DecodeFrame that has begun it returns;
\* a frame that was decoded has ended the build up.
THEOREM FlushEndsWithItsCall == ASSUME RawStreams PROVE Spec => []FlushCompletes
<1>1. IInv => FlushCompletes
  BY DEF IInv
<1> QED BY <1>1, Invariant, PTL

-----------------------------------------------------------------------------
\* What the parser of the pre-roll leaves to be played: a decoder that has
\* rendered nothing gets the whole pre-roll.
BuildsUp(d) == d.buildUp /\ ~d.flushStatus /\ d.config # NoConfig

BuildUpPlayed(p) ==
  /\ p.dec.since = 0 => ~p.dec.output \/ BuildsUp(p.dec)
  /\ ~p.dec.flushStatus /\ p.dec.since = 0 => p.n = au.preroll

ParsePlayed(p) ==
  /\ p.dec.since = 0 => ~p.dec.output \/ BuildsUp(p.dec)
  /\ au.ipf /\ au.damage = "None" /\ ~p.dec.flushStatus /\ p.dec.since = 0 => p.n = au.preroll
  /\ au.damage = "None" \/ p.dec.flushStatus => p.ok
  /\ dec.config = tp.usacConfig => p.dec.config = p.tp.usacConfig
  /\ p.tp.bare => tp.bare \/ (dec.flushStatus /\ au.damage # "Config")
  /\ p.tp.usacConfig \in {tp.usacConfig, au.of}
  /\ p.dec.flushStatus => au.damage = "Config" \/ au.of # tp.usacConfig

LEMMA BuildUpPlays ==
  ASSUME NEW r, Good(r.tp, r.dec, clears), r.dec.flushStatus <=> r.diff,
         r.dec.since = 0 => ~r.dec.output \/ BuildsUp(r.dec),
         au.preroll \in 0..3
  PROVE  /\ BuildUpPlayed(BuildUpFirst(r)) /\ BuildUpFirst(r).tp = r.tp /\ BuildUpFirst(r).ok
         /\ BuildUpFirst(r).dec.config = r.dec.config
         /\ BuildUpFirst(r).dec.flushStatus = r.dec.flushStatus
<1> DEFINE first == ~r.dec.output /\ ~r.diff
           b == r.dec.buildUp \/ first
           n == IF r.dec.buildUp \/ first THEN au.preroll ELSE 0
           e == [r.dec EXCEPT !.buildUp = b]
           p == BuildUpFirst(r)
<1>1. r.dec \in DecType
  BY DEF Good
<1>2. ~(first /\ r.dec.flushStatus)
  OBVIOUS
<1>3. p = Parse(r.tp, [r.dec EXCEPT !.buildUp = @ \/ first], TRUE, n)
  BY <1>2 DEF BuildUpFirst
<1>4. p = Parse(r.tp, e, TRUE, n)
  BY <1>3
<1>5. b \in BOOLEAN /\ (b <=> r.dec.buildUp \/ first) /\ (b => n = au.preroll)
  OBVIOUS
<1>6. first <=> ~r.dec.output /\ ~r.dec.flushStatus
  OBVIOUS
<1> SUFFICES /\ BuildUpPlayed(p) /\ p.tp = r.tp /\ p.ok /\ p.dec.config = r.dec.config
             /\ p.dec.flushStatus = r.dec.flushStatus
  OBVIOUS
<1> HIDE DEF first, b, n, p
<1>7. /\ e.config = r.dec.config /\ e.flushStatus = r.dec.flushStatus /\ e.output = r.dec.output
      /\ e.since = r.dec.since /\ e.buildUp = b
  BY <1>1, <1>5 DEF DecType
<1> HIDE DEF e
<1>8. p.tp = r.tp /\ p.dec = e /\ p.ok /\ p.n = n
  BY <1>4 DEF Parse
<1>9. BuildUpPlayed(p)
  <2>1. e.since = 0 => ~e.output \/ BuildsUp(e)
    BY <1>5, <1>7 DEF BuildsUp
  <2>2. ~e.flushStatus /\ e.since = 0 => n = au.preroll
    BY <1>5, <1>6, <1>7 DEF BuildsUp
  <2> QED BY <1>8, <2>1, <2>2 DEF BuildUpPlayed
<1> QED BY <1>7, <1>8, <1>9

LEMMA PreRollParsePlays ==
  ASSUME RawStreams, IInv, Fresh, pc = "Unit", op = "Decode", unit = 0
  PROVE  ParsePlayed(PreRollParse)
<1>1. /\ Good(tp, dec, clears) /\ tp.asc # NoConfig /\ au.of = stream /\ au \in AccessUnit
      /\ dec.flushStatus => au.ipf /\ au.cfg /\ au.damage # "Hidden"
  BY DEF IInv, Announced, Flushing
<1>2. au.preroll \in 0..3 /\ clears \in Nat
  <2>1. au.preroll \in PreRolls
    BY <1>1 DEF AccessUnit
  <2> QED BY <2>1, ConfigAssumption, RawStream
<1>3. tp \in TpType /\ dec \in DecType
  BY <1>1 DEF Good
<1>4. CASE ~au.ipf \/ au.damage = "Hidden"
  <2> DEFINE p == PreRollParse
             e == [dec EXCEPT !.flushStatus = FALSE]
  <2>1. p = Parse(tp, e, ~dec.flushStatus, 0)
    BY <1>4 DEF PreRollParse
  <2>2. dec.flushStatus = FALSE
    BY <1>1, <1>3, <1>4 DEF DecType
  <2>3. e = dec
    BY <1>3, <2>2 DEF DecType
  <2> SUFFICES ParsePlayed(p)
    OBVIOUS
  <2> HIDE DEF p, e
  <2>4. p.tp = tp /\ p.dec = dec /\ p.ok
    BY <2>1, <2>2, <2>3 DEF Parse
  <2> QED BY <1>4, <2>2, <2>4 DEF ParsePlayed, Fresh
<1>5. CASE au.ipf /\ au.damage # "Hidden" /\ ~au.cfg
  <2> DEFINE r == InBand(tp, dec, FALSE, FALSE)
             p == PreRollParse
  <2>1. p = IF r.ok THEN BuildUpFirst(r) ELSE Parse(r.tp, r.dec, FALSE, 0)
    BY <1>5 DEF PreRollParse
  <2>2. r.tp = tp /\ r.dec = dec /\ r.ok /\ ~r.diff
    BY DEF InBand
  <2> SUFFICES ParsePlayed(p)
    OBVIOUS
  <2> HIDE DEF r, p
  <2>3. p = BuildUpFirst(r)
    BY <2>1, <2>2
  <2>4. ~r.dec.flushStatus /\ (r.dec.since = 0 => ~r.dec.output)
    BY <1>1, <1>5, <2>2 DEF Fresh
  <2>5. /\ BuildUpPlayed(p) /\ p.tp = r.tp /\ p.ok /\ p.dec.config = r.dec.config
        /\ p.dec.flushStatus = r.dec.flushStatus
    BY <1>1, <1>2, <2>2, <2>3, <2>4, BuildUpPlays
  <2> QED BY <2>2, <2>4, <2>5 DEF ParsePlayed, BuildUpPlayed
<1>6. CASE au.ipf /\ au.damage # "Hidden" /\ au.cfg
  <2> DEFINE c == IF au.damage = "Config" THEN Broken ELSE au.of
             r == InBandConfig(tp, dec, c)
             p == PreRollParse
  <2>1. p = IF r.ok THEN BuildUpFirst(r) ELSE Parse(r.tp, r.dec, FALSE, 0)
    BY <1>6 DEF PreRollParse
  <2>2. c # Broken => c \in Configs /\ HasPreRoll(c)
    BY <1>1, RawStream
  <2>3. InBandKept(tp, dec, clears, c, r)
    BY <1>1, <1>2, <2>2, RawStream, InBandKeepsGood
  <2>4. (au.damage = "Config" /\ c = Broken) \/ (au.damage # "Config" /\ c = au.of /\ c # Broken)
    BY <1>1, RawStream
  <2> SUFFICES ParsePlayed(p)
    OBVIOUS
  <2> HIDE DEF c, r, p
  <2>5. /\ Good(r.tp, r.dec, clears) /\ r.ok \in BOOLEAN
        /\ (r.dec.flushStatus <=> r.diff) /\ (r.dec.flushStatus => r.ok)
        /\ ~r.ok => r.tp.usacConfig = tp.usacConfig /\ c = Broken
        /\ dec.config = tp.usacConfig => r.dec.config = r.tp.usacConfig
        /\ r.tp.bare => tp.bare \/ (tp.flushStatus /\ c # Broken)
        /\ r.dec.flushStatus => c # tp.usacConfig /\ r.tp.usacConfig = tp.usacConfig
        /\ r.ok /\ ~r.dec.flushStatus => r.tp.usacConfig = c
    BY <2>3 DEF InBandKept
  <2>6. r.dec.since = 0 => ~r.dec.output \/ BuildsUp(r.dec)
    BY <2>3 DEF InBandKept, Fresh, BuildsUp
  <2>7. tp.flushStatus = dec.flushStatus
    BY <1>1 DEF Good, Coupled
  <2>8. r.tp.usacConfig \in {tp.usacConfig, au.of}
    <3>1. r.tp.usacConfig \in Configs \cup {NoConfig}
      BY <2>5 DEF Good, TpType
    <3> QED BY <2>4, <2>5, <3>1, RawStream
  <2>9. CASE r.ok
    <3>1. p = BuildUpFirst(r)
      BY <2>1, <2>9
    <3>2. /\ BuildUpPlayed(p) /\ p.tp = r.tp /\ p.ok /\ p.dec.config = r.dec.config
          /\ p.dec.flushStatus = r.dec.flushStatus
      BY <1>2, <2>5, <2>6, <3>1, BuildUpPlays
    <3> QED BY <2>4, <2>5, <2>7, <2>8, <3>2 DEF ParsePlayed, BuildUpPlayed
  <2>10. CASE ~r.ok
    <3>1. p.tp = r.tp /\ p.dec = r.dec
      BY <2>1, <2>10 DEF Parse
    <3>2. au.damage = "Config" /\ ~p.dec.flushStatus
      BY <2>4, <2>5, <2>10, <3>1
    <3> QED BY <2>4, <2>5, <2>6, <2>7, <2>8, <3>1, <3>2 DEF ParsePlayed
  <2> QED BY <2>5, <2>9, <2>10
<1> QED BY <1>4, <1>5, <1>6

\* What becomes of one unit: without a flush there is no output only if nothing
\* was decoded and there is no frame to repeat.
UnitPlayed(d, fine, independent, bad, r) ==
  /\ r.dec.since = d.since
  /\ r.did \in {"Decoded", "PreRoll", "Concealed"} => r.dec.prev
  /\ d.config = NoConfig => r.did = "NoOutput"
  /\ r.did = "Flushed" => op = "Flush" \/ d.flushStatus
  /\ r.did = "NoOutput" /\ op = "Decode" /\ d.config # NoConfig /\ ~d.flushStatus =>
       ~d.buildUp /\ ~d.prev /\ ~(fine /\ ~bad /\ independent)
  /\ fine /\ op = "Decode" /\ d.flushStatus => r.ok

LEMMA DecodeUnitPlays ==
  ASSUME NEW d \in DecType, NEW fine \in BOOLEAN, NEW main \in BOOLEAN,
         NEW independent \in BOOLEAN, NEW bad \in BOOLEAN
  PROVE  UnitPlayed(d, fine, independent, bad, DecodeUnit(d, fine, main, independent, bad))
<1> DEFINE r == DecodeUnit(d, fine, main, independent, bad)
           played == IF main THEN "Decoded" ELSE "PreRoll"
           flushed == [d EXCEPT !.lastOk = TRUE]
           decoded == [d EXCEPT !.prev = TRUE, !.lastOk = TRUE]
           hidden == [d EXCEPT !.prev = TRUE, !.lastOk = FALSE]
<1>1. /\ flushed.since = d.since
      /\ decoded.since = d.since /\ decoded.prev
      /\ hidden.since = d.since /\ hidden.prev
  BY DEF DecType
<1>0. d.config = NoConfig => r.did = "NoOutput"
  <2>1. d.config = NoConfig => r = Decoded(d, fine, "NoOutput")
    BY DEF DecodeUnit
  <2> HIDE DEF r
  <2> QED BY <2>1 DEF Decoded
<1>2. \/ /\ r = Decoded(d, fine, "NoOutput") /\ d.config = NoConfig
      \/ /\ r = Decoded(hidden, fine, "Concealed")
         /\ op = "Conceal" \/ ~d.flushStatus \/ ~fine
      \/ /\ r = Decoded(hidden, FALSE, "Concealed")
         /\ op = "Conceal" \/ ~d.flushStatus \/ ~fine
      \/ /\ r = Decoded(d, fine, "NoOutput") /\ op = "Conceal"
      \/ /\ r = Decoded(d, FALSE, "NoOutput") /\ ~fine /\ (op = "Flush" \/ d.flushStatus)
      \/ /\ r = Decoded(d, FALSE, "NoOutput") /\ op # "Flush" /\ ~d.flushStatus
         /\ ~d.buildUp /\ ~d.prev /\ ~(fine /\ ~bad /\ independent)
      \/ /\ r = Decoded(d, TRUE, "NoOutput") /\ (op = "Flush" \/ d.flushStatus)
      \/ /\ r = Decoded(flushed, TRUE, "Flushed") /\ (op = "Flush" \/ d.flushStatus)
      \/ /\ r = Decoded(decoded, TRUE, played) /\ ~d.flushStatus
  <2>1. CASE d.config = NoConfig
    BY <2>1 DEF DecodeUnit
  <2>2. CASE d.config # NoConfig /\ op = "Conceal"
    BY <2>2 DEF DecodeUnit, Concealed
  <2>3. CASE d.config # NoConfig /\ op # "Conceal" /\ (op = "Flush" \/ d.flushStatus)
    BY <2>3 DEF DecodeUnit, Concealed
  <2>4. CASE d.config # NoConfig /\ op # "Conceal" /\ ~(op = "Flush" \/ d.flushStatus)
    BY <2>4 DEF DecodeUnit, Concealed
  <2> QED BY <2>1, <2>2, <2>3, <2>4
<1>3. played \in {"Decoded", "PreRoll"}
  OBVIOUS
<1> SUFFICES UnitPlayed(d, fine, independent, bad, r)
  OBVIOUS
<1> HIDE DEF r, played, flushed, decoded, hidden
<1>4. r.did = "Concealed" /\ r.dec = hidden /\ (op = "Conceal" \/ ~d.flushStatus \/ ~fine)
        => UnitPlayed(d, fine, independent, bad, r)
  BY <1>0, <1>1 DEF UnitPlayed
<1>5. CASE \/ r = Decoded(d, fine, "NoOutput") /\ d.config = NoConfig
           \/ r = Decoded(d, fine, "NoOutput") /\ op = "Conceal"
           \/ r = Decoded(d, FALSE, "NoOutput") /\ ~fine /\ (op = "Flush" \/ d.flushStatus)
           \/ r = Decoded(d, TRUE, "NoOutput") /\ (op = "Flush" \/ d.flushStatus)
           \/ /\ r = Decoded(d, FALSE, "NoOutput") /\ op # "Flush" /\ ~d.flushStatus
              /\ ~d.buildUp /\ ~d.prev /\ ~(fine /\ ~bad /\ independent)
  <2>1. r.dec = d /\ r.did = "NoOutput"
    BY <1>5 DEF Decoded
  <2>2. fine /\ op = "Decode" /\ d.flushStatus => r.ok
    <3>1. CASE r = Decoded(d, fine, "NoOutput")
      BY <3>1 DEF Decoded
    <3>2. CASE r = Decoded(d, TRUE, "NoOutput")
      BY <3>2 DEF Decoded
    <3> QED BY <1>5, <3>1, <3>2
  <2>3. op = "Decode" /\ d.config # NoConfig /\ ~d.flushStatus =>
          ~d.buildUp /\ ~d.prev /\ ~(fine /\ ~bad /\ independent)
    BY <1>5
  <2> QED BY <2>1, <2>2, <2>3 DEF UnitPlayed
<1>6. CASE \/ r = Decoded(hidden, fine, "Concealed") \/ r = Decoded(hidden, FALSE, "Concealed")
  <2>1. r.did = "Concealed" /\ r.dec = hidden
    BY <1>6 DEF Decoded
  <2>2. op = "Conceal" \/ ~d.flushStatus \/ ~fine
    <3>1. r.did # "NoOutput" /\ r.did # "Flushed"
      BY <2>1
    <3>2. ~(r = Decoded(decoded, TRUE, played))
      BY <1>3, <2>1 DEF Decoded
    <3> QED BY <1>2, <3>1, <3>2 DEF Decoded
  <2> QED BY <1>4, <2>1, <2>2
<1>7. CASE r = Decoded(flushed, TRUE, "Flushed") /\ (op = "Flush" \/ d.flushStatus)
  <2>1. r.dec = flushed /\ r.did = "Flushed" /\ r.ok
    BY <1>7 DEF Decoded
  <2> QED BY <1>0, <1>1, <1>7, <2>1 DEF UnitPlayed
<1>8. CASE r = Decoded(decoded, TRUE, played) /\ ~d.flushStatus
  <2>1. r.dec = decoded /\ r.did = played /\ r.ok
    BY <1>8 DEF Decoded
  <2> QED BY <1>0, <1>1, <1>3, <1>8, <2>1 DEF UnitPlayed
<1> QED BY <1>2, <1>5, <1>6, <1>7, <1>8

\* The end of a pass: what was rendered is counted, and stays counted.
LEMMA AfterPlays ==
  ASSUME NEW d \in DecType, NEW e, e = Rendered(d), NEW f, f = e \/ f = BuiltUp(e)
  PROVE  /\ f.since > 0 /\ f.prev = d.prev /\ f.output /\ f.flushStatus = d.flushStatus
         /\ f.config = d.config /\ (f.since = 1 => d.since = 0)
<1> DEFINE n == IF d.since < 2 THEN d.since + 1 ELSE d.since
<1>1. n \in 0..2 /\ n > 0 /\ (n = 1 => d.since = 0)
  BY DEF DecType
<1>2. e = [d EXCEPT !.output = TRUE, !.since = n]
  BY DEF Rendered
<1> HIDE DEF n
<1>3. /\ e.since = n /\ e.prev = d.prev /\ e.output /\ e.flushStatus = d.flushStatus
      /\ e.config = d.config /\ e \in DecType
  <2>1. e \in DecType
    BY <1>1, <1>2 DEF DecType
  <2> QED BY <1>2, <2>1 DEF DecType
<1>4. /\ BuiltUp(e).since = e.since /\ BuiltUp(e).prev = e.prev /\ BuiltUp(e).output = e.output
      /\ BuiltUp(e).flushStatus = e.flushStatus /\ BuiltUp(e).config = e.config
  <2> HIDE DEF n
  <2>1. CASE ~e.buildUp
    BY <2>1 DEF BuiltUp
  <2>2. CASE e.buildUp
    BY <1>3, <2>2 DEF BuiltUp, DecType
  <2> QED BY <2>1, <2>2
<1> HIDE DEF n
<1>5. CASE f = e
  BY <1>1, <1>3, <1>5
<1>6. CASE f = BuiltUp(e)
  BY <1>1, <1>3, <1>4, <1>6
<1> QED BY <1>5, <1>6

\* A pass of the loop, with its parts named.
Parsing == op = "Decode" /\ unit = 0 /\ dec.hasAudioPreRoll
ThisParse == IF Parsing THEN PreRollParse ELSE Parse(tp, dec, TRUE, units - 1)
IsMain == unit >= ThisParse.n
Fine == ok /\ ThisParse.ok
Independent == IF IsMain THEN au.indep ELSE unit = 0
ThisUnit(bad) == DecodeUnit(ThisParse.dec, Fine, IsMain, Independent, bad)

LEMMA ThisParseFacts ==
  ASSUME RawStreams, IInv, Fresh, pc = "Unit"
  PROVE  /\ Good(ThisParse.tp, ThisParse.dec, clears) /\ ThisParse.ok \in BOOLEAN
         /\ ThisParse.n \in 0..3
         /\ ThisParse.dec.flushStatus => op = "Decode" /\ unit = 0 /\ Parsing /\ ThisParse.ok
         /\ ThisParse.dec.since = 0 =>
              ~ThisParse.dec.output \/ (BuildsUp(ThisParse.dec) /\ op = "Decode")
         /\ ThisParse.tp.asc = NoConfig => ThisParse.tp = tp /\ ThisParse.dec = dec
         /\ Parsing => ParsePlayed(ThisParse) /\ ParseKept(ThisParse)
         /\ ~Parsing => ThisParse.tp = tp /\ ThisParse.dec = dec /\ ThisParse.ok
         /\ op = "Decode" => dec.hasAudioPreRoll
<1> DEFINE p == ThisParse
<1>1. /\ Good(tp, dec, clears) /\ Control /\ Flushing /\ Announced /\ units \in 1..4
  BY DEF IInv, Control
<1>2. op = "Decode" => dec.hasAudioPreRoll
  BY <1>1 DEF Announced, Good, Coupled
<1> SUFFICES /\ Good(p.tp, p.dec, clears) /\ p.ok \in BOOLEAN /\ p.n \in 0..3
             /\ p.dec.flushStatus => op = "Decode" /\ unit = 0 /\ Parsing /\ p.ok
             /\ p.dec.since = 0 => ~p.dec.output \/ (BuildsUp(p.dec) /\ op = "Decode")
             /\ p.tp.asc = NoConfig => p.tp = tp /\ p.dec = dec
             /\ Parsing => ParsePlayed(p) /\ ParseKept(p)
             /\ ~Parsing => p.tp = tp /\ p.dec = dec /\ p.ok
  BY <1>2
<1>3. CASE Parsing
  <2>1. p = PreRollParse /\ op = "Decode" /\ unit = 0
    BY <1>3 DEF ThisParse, Parsing
  <2> HIDE DEF p
  <2>2. ParseKept(p) /\ ParsePlayed(p)
    BY <2>1, PreRollParseKeeps, PreRollParsePlays
  <2> QED BY <1>3, <2>1, <2>2 DEF ParseKept, ParsePlayed
<1>4. CASE ~Parsing
  <2>1. p = Parse(tp, dec, TRUE, units - 1)
    BY <1>4 DEF ThisParse
  <2> HIDE DEF p
  <2>2. p.tp = tp /\ p.dec = dec /\ p.ok = TRUE /\ p.n = units - 1
    BY <2>1 DEF Parse
  <2>3. ~dec.flushStatus
    BY <1>1, <1>2, <1>4 DEF Flushing, Parsing
  <2>4. units - 1 \in 0..3
    BY <1>1
  <2>5. p.ok \in BOOLEAN /\ p.ok
    BY <2>2
  <2> QED BY <1>1, <1>4, <2>2, <2>3, <2>4, <2>5 DEF Fresh
<1> QED BY <1>3, <1>4

PassTo(bad) ==
  LET r == ThisUnit(bad)
  IN  \/ /\ r.did = "NoOutput" /\ dec' = r.dec
         /\ IF r.dec.flushStatus THEN pc' = "Unit" /\ unit' = unit ELSE pc' = "Idle"
      \/ /\ r.did # "NoOutput" /\ dec'.since > 0 /\ dec'.prev = r.dec.prev /\ dec'.output
         /\ dec'.config = r.dec.config /\ dec'.flushStatus = r.dec.flushStatus
         /\ dec'.since = 1 => r.dec.since = 0
         /\ unit' = IF r.dec.flushStatus THEN unit ELSE unit + 1

LEMMA Pass ==
  ASSUME RawStreams, IInv, Fresh, Iterate
  PROVE  \E bad \in BOOLEAN :
           /\ bad => MayFail(ThisParse.dec)
           /\ tp' = ThisParse.tp /\ ok' = ThisUnit(bad).ok /\ did' = ThisUnit(bad).did
           /\ UnitKept(ThisParse.dec, IsMain, ThisUnit(bad))
           /\ UnitPlayed(ThisParse.dec, Fine, Independent, bad, ThisUnit(bad))
           /\ PassTo(bad)
<1>1. PICK bad \in BOOLEAN :
        LET r == ThisUnit(bad)
            unflushed == r.did = "NoOutput" /\ r.dec.flushStatus /\ op # "Conceal"
            shown == IF r.did = "NoOutput" THEN r.dec ELSE Rendered(r.dec)
            after == IF IsMain THEN BuiltUp(shown) ELSE shown
            loop == Loop(after, unit, 1 + ThisParse.n)
        IN  /\ bad => op = "Decode" /\ MayFail(ThisParse.dec)
            /\ tp' = ThisParse.tp /\ ok' = r.ok /\ did' = r.did
            /\ IF r.did = "NoOutput" /\ ~unflushed
               THEN dec' = r.dec /\ pc' = "Idle" /\ unit' = unit
               ELSE dec' = after /\ pc' = loop.pc /\ unit' = loop.unit
  BY RawStream DEF Iterate, ThisParse, Parsing, ThisUnit, IsMain, Fine, Independent
<1>2. pc = "Unit" /\ au \in AccessUnit \cup {NoUnit} /\ ok \in BOOLEAN /\ unit \in 0..4
  BY DEF Iterate, IInv, Control
<1> DEFINE d == ThisParse.dec
           r == ThisUnit(bad)
           shown == IF r.did = "NoOutput" THEN r.dec ELSE Rendered(r.dec)
           after == IF IsMain THEN BuiltUp(shown) ELSE shown
           loop == Loop(after, unit, 1 + ThisParse.n)
<1>3. /\ d \in DecType /\ Coupled(ThisParse.tp, d) /\ ThisParse.ok \in BOOLEAN
      /\ d.flushStatus => op = "Decode"
  BY <1>2, ThisParseFacts DEF Good
<1>4. IsMain \in BOOLEAN /\ Fine \in BOOLEAN /\ Independent \in BOOLEAN
  <2>1. au.indep \in BOOLEAN
    <3>1. CASE au \in AccessUnit
      BY <3>1 DEF AccessUnit
    <3>2. CASE au = NoUnit
      BY <3>2 DEF NoUnit
    <3> QED BY <1>2, <3>1, <3>2
  <2>2. IsMain \in BOOLEAN
    BY DEF IsMain
  <2>3. Fine \in BOOLEAN
    BY DEF Fine
  <2>4. Independent \in BOOLEAN
    BY <2>1 DEF Independent
  <2> QED BY <2>2, <2>3, <2>4
<1>5. UnitKept(d, IsMain, r) /\ UnitPlayed(d, Fine, Independent, bad, r)
  <2>1. r = DecodeUnit(d, Fine, IsMain, Independent, bad)
    BY DEF ThisUnit
  <2> HIDE DEF d, r
  <2> QED BY <1>3, <1>4, <2>1, DecodeUnitKeeps, DecodeUnitPlays
<1>6. /\ bad => MayFail(d)
      /\ tp' = ThisParse.tp /\ ok' = r.ok /\ did' = r.did
      /\ \/ /\ r.did = "NoOutput" /\ ~(r.dec.flushStatus /\ op # "Conceal")
            /\ dec' = r.dec /\ pc' = "Idle" /\ unit' = unit
         \/ /\ r.did = "NoOutput" => r.dec.flushStatus /\ op # "Conceal"
            /\ dec' = after /\ pc' = loop.pc /\ unit' = loop.unit
  BY <1>1
<1>7. loop = [pc |-> IF (IF after.flushStatus THEN unit ELSE unit + 1) < 1 + ThisParse.n
                        \/ (after.flushStatus /\ op # "Conceal") THEN "Unit" ELSE "Idle",
              unit |-> IF after.flushStatus THEN unit ELSE unit + 1]
  BY DEF Loop
<1> HIDE DEF d, r, loop
<1>8. /\ r.dec \in DecType /\ r.dec.flushStatus = d.flushStatus
      /\ r.dec.flushStatus => ~r.dec.buildUp
  BY <1>3, <1>5 DEF UnitKept, SameDecoder, Coupled
<1>9. PassTo(bad)
  <2>1. CASE /\ r.did = "NoOutput" /\ ~(r.dec.flushStatus /\ op # "Conceal")
             /\ dec' = r.dec /\ pc' = "Idle" /\ unit' = unit
    <3>1. ~r.dec.flushStatus
      BY <1>3, <1>8, <2>1
    <3> QED BY <2>1, <3>1 DEF PassTo, r
  <2>2. CASE /\ r.did = "NoOutput" /\ r.dec.flushStatus /\ op # "Conceal"
             /\ dec' = after /\ pc' = loop.pc /\ unit' = loop.unit
    <3>1. after = r.dec
      BY <1>8, <2>2 DEF BuiltUp
    <3> HIDE DEF after
    <3>2. pc' = "Unit" /\ unit' = unit
      BY <1>7, <2>2, <3>1
    <3> QED BY <2>2, <3>1, <3>2 DEF PassTo, r
  <2>3. CASE /\ r.did # "NoOutput" /\ dec' = after /\ pc' = loop.pc /\ unit' = loop.unit
    <3>1. after = Rendered(r.dec) \/ after = BuiltUp(Rendered(r.dec))
      BY <2>3
    <3> HIDE DEF after
    <3>2. /\ after.since > 0 /\ after.prev = r.dec.prev /\ after.output
          /\ after.flushStatus = r.dec.flushStatus /\ after.config = r.dec.config
          /\ (after.since = 1 => r.dec.since = 0)
      BY <1>8, <3>1, AfterPlays
    <3>3. unit' = IF r.dec.flushStatus THEN unit ELSE unit + 1
      BY <1>7, <2>3, <3>2
    <3> QED BY <2>3, <3>2, <3>3 DEF PassTo, r
  <2> QED BY <1>6, <2>1, <2>2, <2>3
<1> QED BY <1>5, <1>6, <1>9 DEF d, r

LEMMA IteratePlays ==
  ASSUME RawStreams, IInv, Played, Iterate
  PROVE  Played'
<1> DEFINE d == ThisParse.dec
<1>1. /\ pc = "Unit" /\ op' = op /\ au' = au /\ Fresh /\ FirstAlone /\ PreRollPlayed
      /\ unit \in 0..3 /\ dec \in DecType /\ (op = "Decode" => au \in AccessUnit)
      /\ op \in {"Decode", "Conceal", "Flush"}
  BY DEF Iterate, Played, IInv, Control, Good, Announced
<1>2. PICK bad \in BOOLEAN :
           /\ bad => MayFail(d)
           /\ tp' = ThisParse.tp /\ ok' = ThisUnit(bad).ok /\ did' = ThisUnit(bad).did
           /\ UnitKept(d, IsMain, ThisUnit(bad))
           /\ UnitPlayed(d, Fine, Independent, bad, ThisUnit(bad))
           /\ PassTo(bad)
  BY <1>1, Pass
<1> DEFINE r == ThisUnit(bad)
<1>3. /\ d \in DecType /\ Coupled(ThisParse.tp, d) /\ ThisParse.n \in 0..3
      /\ d.flushStatus => op = "Decode" /\ unit = 0 /\ ThisParse.ok
      /\ d.since = 0 => ~d.output \/ (BuildsUp(d) /\ op = "Decode")
      /\ ThisParse.tp.asc = NoConfig => ThisParse.tp = tp /\ d = dec
      /\ Parsing => ParsePlayed(ThisParse)
      /\ ~Parsing => d = dec
      /\ op = "Decode" => dec.hasAudioPreRoll
  BY <1>1, ThisParseFacts DEF Good
<1>4. UnitKept(d, IsMain, r) /\ UnitPlayed(d, Fine, Independent, bad, r)
  BY <1>2
<1>5. \/ /\ r.did = "NoOutput" /\ dec' = r.dec
         /\ IF r.dec.flushStatus THEN pc' = "Unit" /\ unit' = unit ELSE pc' = "Idle"
      \/ /\ r.did # "NoOutput" /\ dec'.since > 0 /\ dec'.prev = r.dec.prev /\ dec'.output
         /\ dec'.config = r.dec.config /\ dec'.flushStatus = r.dec.flushStatus
         /\ dec'.since = 1 => r.dec.since = 0
         /\ unit' = IF r.dec.flushStatus THEN unit ELSE unit + 1
  BY <1>2 DEF PassTo
<1>6. ok' = r.ok /\ did' = r.did /\ tp' = ThisParse.tp
  BY <1>2
<1> HIDE DEF d, r
<1>7. /\ r.dec.since = d.since /\ r.dec.output = d.output /\ r.dec.flushStatus = d.flushStatus
      /\ r.dec.config = d.config
  BY <1>4 DEF UnitPlayed, UnitKept, SameDecoder
<1>8. Fresh'
  <2>1. SUFFICES ASSUME dec'.since = 0 PROVE ~dec'.output
    BY DEF Fresh
  <2>2. r.did = "NoOutput" /\ dec' = r.dec
    BY <1>5, <2>1
  <2>3. ~(BuildsUp(d) /\ op = "Decode")
    BY <1>4, <2>2 DEF UnitPlayed, BuildsUp
  <2> QED BY <1>3, <1>7, <2>1, <2>2, <2>3
<1>9. FirstAlone'
  <2>1. SUFFICES ASSUME tp'.asc = NoConfig PROVE ~dec'.output /\ ~au.indep
    BY <1>1 DEF FirstAlone
  <2>2. ThisParse.tp = tp /\ d = dec /\ tp.asc = NoConfig
    BY <1>3, <1>6, <2>1
  <2>3. ~dec.output /\ ~au.indep
    BY <1>1, <2>2 DEF FirstAlone
  <2>4. d.config = NoConfig
    BY <1>3, <2>2 DEF Coupled
  <2>5. r.did = "NoOutput"
    BY <1>4, <2>4 DEF UnitPlayed
  <2>6. dec'.output = d.output
    BY <1>5, <1>7, <2>5
  <2> QED BY <2>2, <2>3, <2>6
<1>10. PreRollPlayed'
  <2>1. SUFFICES ASSUME pc' = "Unit", op = "Decode"
                 PROVE  (unit' = 0 => ok') /\ (unit' > 0 => dec'.since > 0 /\ dec'.prev)
    BY <1>1 DEF PreRollPlayed
  <2>2. CASE d.flushStatus
    <3>1. unit = 0 /\ ThisParse.ok
      BY <1>3, <2>2
    <3>2. unit' = 0
      BY <1>5, <1>7, <2>2, <3>1
    <3>3. Fine
      BY <1>1, <2>1, <3>1 DEF Fine, PreRollPlayed
    <3>4. r.ok
      BY <1>4, <2>1, <2>2, <3>3 DEF UnitPlayed
    <3> QED BY <1>6, <3>2, <3>4
  <2>3. CASE ~d.flushStatus
    <3>1. r.did # "NoOutput" /\ dec'.since > 0 /\ dec'.prev = r.dec.prev /\ unit' = unit + 1
      BY <1>5, <1>7, <2>1, <2>3
    <3>2. r.did \in {"Decoded", "PreRoll", "Concealed"}
      BY <1>4, <2>1, <2>3, <3>1 DEF UnitKept, UnitPlayed
    <3>3. r.dec.prev
      BY <1>4, <3>2 DEF UnitPlayed
    <3> QED BY <1>1, <3>1, <3>3
  <2> QED BY <2>2, <2>3
<1>11. PreRollsFirst'
  <2>1. SUFFICES ASSUME did' = "Decoded", au.ipf, au.damage = "None", dec'.since = 1
                 PROVE  au.preroll = 0
    BY <1>1 DEF PreRollsFirst
  <2>2. /\ IsMain /\ op = "Decode" /\ ~d.flushStatus
    BY <1>1, <1>4, <1>6, <2>1 DEF UnitKept
  <2>3. d.since = 0
    BY <1>5, <1>6, <1>7, <2>1
  <2>4. unit = 0
    <3>1. SUFFICES ASSUME unit > 0 PROVE FALSE
      BY <1>1
    <3>2. ~Parsing
      BY <3>1 DEF Parsing
    <3>3. dec.since > 0
      BY <1>1, <2>2, <3>1 DEF PreRollPlayed
    <3> QED BY <1>3, <2>3, <3>2, <3>3
  <2>5. Parsing
    BY <1>3, <2>2, <2>4 DEF Parsing
  <2>6. ThisParse.n = au.preroll
    BY <1>3, <2>1, <2>2, <2>3, <2>5 DEF ParsePlayed, d
  <2>7. 0 >= ThisParse.n
    BY <2>2, <2>4 DEF IsMain
  <2> QED BY <1>3, <2>6, <2>7
<1> QED BY <1>8, <1>9, <1>10, <1>11 DEF Played

\* Clearing the history frees the decoder or builds it again: what comes next is
\* the first frame.
LEMMA ClearPlays ==
  ASSUME RawStreams, IInv, Played, NEW clear \in BOOLEAN
  PROVE  LET c == AfterClear(clear)
         IN  /\ c.dec.since = 0 => ~c.dec.output
             /\ c.tp.asc = NoConfig => ~c.dec.output
<1> DEFINE c == AfterClear(clear)
<1>1. tp \in TpType /\ dec \in DecType /\ ~Loas /\ Fresh /\ FirstAlone
  BY RawStream DEF IInv, Good, Played
<1>2. CASE ~clear \/ tp.asc = NoConfig
  <2>1. c = [tp |-> tp, dec |-> dec]
    BY <1>2 DEF AfterClear, Cleared
  <2> HIDE DEF c
  <2>2. c.tp = tp /\ c.dec = dec
    BY <2>1
  <2> QED BY <1>1, <2>2 DEF Fresh, FirstAlone, c
<1>3. CASE clear /\ tp.asc # NoConfig
  <2> DEFINE free == [Freed(dec) EXCEPT !.output = FALSE]
             built == Rebuilt(free, tp.asc)
  <2>1. c.dec = free \/ c.dec = built
    BY <1>1, <1>3 DEF AfterClear, Cleared
  <2>2. free \in DecType /\ ~free.output
    <3>1. free = [dec EXCEPT !.config = NoConfig, !.output = FALSE]
      BY DEF Freed
    <3> HIDE DEF free
    <3>2. free \in DecType
      BY <1>1, <3>1 DEF DecType
    <3> QED BY <1>1, <3>1, <3>2 DEF DecType
  <2>3. ~built.output
    <3>1. tp.asc \in Configs /\ built = Rebuilt(free, tp.asc)
      BY <1>1, <1>3 DEF TpType
    <3> HIDE DEF free, built
    <3>2. built.output = free.output
      BY <2>2, <3>1, RebuiltFields
    <3> QED BY <2>2, <3>2
  <2> HIDE DEF c, free, built
  <2>4. ~c.dec.output
    BY <2>1, <2>2, <2>3
  <2> QED BY <2>4 DEF c
<1> QED BY <1>2, <1>3

LEMMA OthersPlay ==
  ASSUME RawStreams, IInv, Played,
         \/ \E u \in Coming : Lose(u)
         \/ \E u \in Coming, clear \in BOOLEAN : BeginDecode(u, clear)
         \/ \E what \in {"Conceal", "Flush"}, clear \in BOOLEAN : BeginOther(what, clear)
         \/ Configure
         \/ UNCHANGED vars
  PROVE  Played'
<1>1. Fresh /\ FirstAlone /\ PreRollPlayed /\ PreRollsFirst
  BY DEF Played
<1>2. CASE \E u \in Coming : Lose(u)
  BY <1>1, <1>2 DEF Lose, Played, Fresh, FirstAlone, PreRollPlayed, PreRollsFirst
<1>3. CASE \E u \in Coming, clear \in BOOLEAN : BeginDecode(u, clear)
  <2>1. PICK u \in Coming, clear \in BOOLEAN : BeginDecode(u, clear)
    BY <1>3
  <2> DEFINE c == AfterClear(clear)
  <2>2. /\ pc = "Idle" /\ Clear(clear) /\ tp.asc # NoConfig
        /\ tp' = c.tp /\ dec' = c.dec /\ Enter("Decode")
    <3>1. ~Loas
      BY RawStream
    <3> QED BY <2>1, <3>1 DEF BeginDecode, Read
  <2>3. c.tp.asc = tp.asc
    BY <2>2, ClearKeeps
  <2>4. c.dec.since = 0 => ~c.dec.output
    BY ClearPlays
  <2> HIDE DEF c
  <2>5. Fresh' /\ FirstAlone'
    BY <2>2, <2>3, <2>4 DEF Fresh, FirstAlone
  <2>6. PreRollPlayed' /\ PreRollsFirst'
    <3>1. unit' = 0 /\ ok' /\ did' = "Nothing"
      BY <2>2 DEF Enter
    <3> QED BY <3>1 DEF PreRollPlayed, PreRollsFirst
  <2> QED BY <2>5, <2>6 DEF Played
<1>4. CASE \E what \in {"Conceal", "Flush"}, clear \in BOOLEAN : BeginOther(what, clear)
  <2>1. PICK what \in {"Conceal", "Flush"}, clear \in BOOLEAN : BeginOther(what, clear)
    BY <1>4
  <2> DEFINE c == AfterClear(clear)
  <2>2. /\ pc = "Idle" /\ Clear(clear) /\ tp' = c.tp /\ dec' = c.dec /\ Enter(what) /\ au' = au
    BY <2>1 DEF BeginOther
  <2>3. c.tp.asc = tp.asc
    BY <2>2, ClearKeeps
  <2>4. (c.dec.since = 0 => ~c.dec.output) /\ (c.tp.asc = NoConfig => ~c.dec.output)
    BY ClearPlays
  <2> HIDE DEF c
  <2>5. Fresh' /\ FirstAlone'
    BY <1>1, <2>2, <2>3, <2>4 DEF Fresh, FirstAlone
  <2>6. PreRollPlayed' /\ PreRollsFirst'
    <3>1. unit' = 0 /\ ok' /\ did' = "Nothing"
      BY <2>2 DEF Enter
    <3> QED BY <3>1 DEF PreRollPlayed, PreRollsFirst
  <2> QED BY <2>5, <2>6 DEF Played
<1>5. CASE Configure
  <2>1. /\ pc = "Idle" /\ tp.asc = NoConfig /\ dec' = Rebuilt(dec, stream)
        /\ tp' = [tp EXCEPT !.asc = stream, !.usacConfig = stream]
        /\ UNCHANGED <<pc, op, au, unit, ok, did>>
    BY <1>5 DEF Configure
  <2>2. tp \in TpType /\ dec \in DecType /\ stream \in Configs /\ stream # NoConfig
    BY RawStream DEF IInv, Good
  <2> DEFINE e == Rebuilt(dec, stream)
  <2>3. e.output = dec.output /\ e.since = 0
    <3>1. e = Rebuilt(dec, stream)
      OBVIOUS
    <3> HIDE DEF e
    <3> QED BY <2>2, <3>1, RebuiltFields
  <2>4. dec' = e
    BY <2>1
  <2> HIDE DEF e
  <2>5. tp'.asc = stream
    BY <2>1, <2>2 DEF TpType
  <2>6. ~dec.output
    BY <1>1, <2>1 DEF FirstAlone
  <2>7. Fresh' /\ FirstAlone'
    BY <2>2, <2>3, <2>4, <2>5, <2>6 DEF Fresh, FirstAlone
  <2>8. PreRollPlayed' /\ PreRollsFirst'
    BY <2>1, <2>3, <2>4 DEF PreRollPlayed, PreRollsFirst
  <2> QED BY <2>7, <2>8 DEF Played
<1>6. CASE UNCHANGED vars
  BY <1>1, <1>6 DEF vars, Played, Fresh, FirstAlone, PreRollPlayed, PreRollsFirst
<1> QED BY <1>2, <1>3, <1>4, <1>5, <1>6

LEMMA PlayedInvariant == ASSUME RawStreams PROVE Spec => [](IInv /\ Played)
<1>1. Init => IInv /\ Played
  <2>1. Init => Played
    BY DEF Init, InitTp, InitDec, NoUnit, Played, Fresh, FirstAlone, PreRollPlayed, PreRollsFirst
  <2> QED BY <2>1, InitSound
<1>2. IInv /\ Played /\ [Next]_vars => IInv' /\ Played'
  BY IterateKeepsInv, OthersKeepInv, IteratePlays, OthersPlay DEF Next
<1> QED BY <1>1, <1>2, PTL DEF Spec

\* CAacDecoder_DecodeFrame never plays an immediate playout frame as the first thing
\* of a new decoder while the pre-roll that came with it has not been decoded,
\* whatever was lost, damaged, flushed or cleared before.
THEOREM PreRollComesFirst == ASSUME RawStreams PROVE Spec => []PreRollsFirst
<1>1. Played => PreRollsFirst
  BY DEF Played
<1> QED BY <1>1, PlayedInvariant, PTL

-----------------------------------------------------------------------------
LEMMA IterateKeepsDecoder ==
  ASSUME RawStreams, ClearsKeepDecoder, IInv, Played, Kept, Iterate
  PROVE  Kept' /\ PlaysIntact'
<1> DEFINE d == ThisParse.dec
           t == ThisParse.tp
<1>1. /\ pc = "Unit" /\ op' = op /\ au' = au /\ known' = known /\ scenario' = scenario
      /\ Fresh /\ PreRollPlayed /\ unit \in 0..3 /\ Good(tp, dec, clears)
      /\ scenario \in Scenarios /\ stream \in scenario.configs
      /\ op = "Decode" => au.of = stream /\ au \in AccessUnit /\ tp.asc # NoConfig
  BY DEF Iterate, Played, IInv, Control, Announced
<1>2. PICK bad \in BOOLEAN :
           /\ bad => MayFail(d)
           /\ tp' = t /\ did' = ThisUnit(bad).did
           /\ UnitKept(d, IsMain, ThisUnit(bad))
           /\ UnitPlayed(d, Fine, Independent, bad, ThisUnit(bad))
           /\ PassTo(bad)
  BY <1>1, Pass
<1> DEFINE r == ThisUnit(bad)
<1>3. /\ d \in DecType /\ Coupled(t, d)
      /\ d.flushStatus => op = "Decode" /\ unit = 0 /\ Parsing
      /\ t.asc = NoConfig => t = tp /\ d = dec
      /\ Parsing => ParsePlayed(ThisParse) /\ ParseKept(ThisParse)
      /\ ~Parsing => t = tp /\ d = dec
      /\ op = "Decode" => dec.hasAudioPreRoll
  BY <1>1, ThisParseFacts DEF Good
<1>4. UnitKept(d, IsMain, r) /\ UnitPlayed(d, Fine, Independent, bad, r)
  BY <1>2
<1>5. \/ /\ r.did = "NoOutput" /\ dec' = r.dec
         /\ IF r.dec.flushStatus THEN pc' = "Unit" /\ unit' = unit ELSE pc' = "Idle"
      \/ /\ r.did # "NoOutput"
         /\ dec'.config = r.dec.config /\ dec'.flushStatus = r.dec.flushStatus
  BY <1>2 DEF PassTo
<1>6. tp' = t /\ did' = r.did
  BY <1>2
<1>7. Parsing =>
        /\ op = "Decode" /\ unit = 0 /\ tp.asc # NoConfig /\ t.asc # NoConfig
        /\ dec.config = tp.usacConfig => d.config = t.usacConfig
        /\ t.bare => tp.bare \/ (dec.flushStatus /\ au.damage # "Config")
        /\ t.usacConfig \in {tp.usacConfig, au.of}
        /\ d.flushStatus => /\ au.damage = "Config" \/ au.of # tp.usacConfig
                            /\ t.usacConfig = tp.usacConfig
        /\ known /\ ~d.flushStatus => t.usacConfig = stream
        /\ au.damage = "None" => ThisParse.ok
  BY <1>1, <1>3 DEF ParsePlayed, ParseKept, Parsing
<1>8. /\ Built /\ (tp.bare => scenario.clears = 0)
      /\ tp.usacConfig \in scenario.configs \cup {NoConfig}
      /\ dec.flushStatus => au.damage = "Config" \/ au.of # tp.usacConfig
      /\ tp.asc = tp.usacConfig
  BY <1>1 DEF Kept, Good, Coupled
<1> HIDE DEF d, t, r
<1>9. dec'.config = d.config /\ dec'.flushStatus = d.flushStatus
  BY <1>4, <1>5 DEF UnitKept, SameDecoder
<1>10. t.asc # NoConfig => d.config = t.usacConfig
  <2>1. CASE Parsing
    BY <1>7, <1>8, <2>1 DEF Built
  <2>2. CASE ~Parsing
    BY <1>3, <1>8, <2>2 DEF Built
  <2> QED BY <2>1, <2>2
<1>11. t.bare => scenario.clears = 0
  <2>1. CASE Parsing /\ t.bare /\ dec.flushStatus /\ au.damage # "Config"
    <3>1. au.of # tp.usacConfig /\ tp.usacConfig # NoConfig
      BY <1>7, <1>8, <2>1
    <3>2. au.of \in scenario.configs /\ tp.usacConfig \in scenario.configs
      BY <1>1, <1>7, <1>8, <2>1, <3>1
    <3> QED BY <1>1, <3>1, <3>2 DEF ClearsKeepDecoder
  <2>2. CASE ~(Parsing /\ t.bare /\ dec.flushStatus /\ au.damage # "Config")
    BY <1>3, <1>7, <1>8, <2>2
  <2> QED BY <2>1, <2>2
<1>12. t.usacConfig \in scenario.configs \cup {NoConfig}
  BY <1>1, <1>3, <1>7, <1>8
<1>13. d.flushStatus => au.damage = "Config" \/ au.of # t.usacConfig
  BY <1>3, <1>7
<1>14. Kept'
  BY <1>1, <1>6, <1>9, <1>10, <1>11, <1>12, <1>13 DEF Kept, Built
<1>15. PlaysIntact'
  <2>1. SUFFICES ASSUME pc' = "Idle", op = "Decode", known, au.damage = "None", au.indep,
                        did' = "NoOutput"
                 PROVE  FALSE
    BY <1>1 DEF PlaysIntact
  <2>2. ~d.flushStatus
    <3>1. ~r.dec.flushStatus
      BY <1>5, <1>6, <2>1
    <3> QED BY <1>4, <3>1 DEF UnitKept, SameDecoder
  <2>3. t.asc # NoConfig /\ t.asc = t.usacConfig
    BY <1>1, <1>3, <1>7, <2>1 DEF Coupled
  <2>4. d.config # NoConfig
    BY <1>10, <2>3
  <2>5. ~d.prev /\ ~(Fine /\ ~bad /\ Independent)
    BY <1>4, <1>6, <2>1, <2>2, <2>4 DEF UnitPlayed
  <2>6. unit = 0
    <3>1. SUFFICES ASSUME unit > 0 PROVE FALSE
      BY <1>1
    <3>2. d = dec /\ dec.prev
      BY <1>1, <1>3, <2>1, <3>1 DEF Parsing, PreRollPlayed
    <3> QED BY <2>5, <3>2
  <2>7. Parsing
    BY <1>3, <2>1, <2>6 DEF Parsing
  <2>8. Fine
    BY <1>1, <1>7, <2>1, <2>6, <2>7 DEF Fine, PreRollPlayed
  <2>9. ~bad
    <3>1. d.config = au.of
      BY <1>1, <1>7, <1>10, <2>1, <2>2, <2>3, <2>7
    <3>2. ~MayFail(d)
      BY <2>1, <3>1 DEF MayFail
    <3> QED BY <1>2, <3>2 DEF d
  <2>10. Independent
    BY <2>1, <2>6 DEF Independent
  <2> QED BY <2>5, <2>8, <2>9, <2>10
<1> QED BY <1>14, <1>15

\* A decoder whose history is cleared is built again, for what was its configuration.
LEMMA ClearKeepsDecoder ==
  ASSUME RawStreams, IInv, Kept, NEW clear \in BOOLEAN, Clear(clear)
  PROVE  LET c == AfterClear(clear)
         IN  /\ c.tp.bare = tp.bare
             /\ tp.asc # NoConfig => c.dec.config = tp.usacConfig
<1> DEFINE c == AfterClear(clear)
<1>1. /\ tp \in TpType /\ dec \in DecType /\ ~Loas /\ Built /\ (tp.bare => scenario.clears = 0)
      /\ tp.asc = tp.usacConfig /\ clears \in Nat /\ scenario.clears \in Nat
  BY RawStream DEF IInv, Good, Kept, Coupled
<1>2. CASE ~clear \/ tp.asc = NoConfig
  <2>1. c = [tp |-> tp, dec |-> dec]
    BY <1>2 DEF AfterClear, Cleared
  <2> HIDE DEF c
  <2>2. c.tp = tp /\ c.dec = dec
    BY <2>1
  <2> QED BY <1>1, <2>2 DEF Built, c
<1>3. CASE clear /\ tp.asc # NoConfig
  <2>1. ~tp.bare
    BY <1>1, <1>3 DEF Clear
  <2> DEFINE free == [Freed(dec) EXCEPT !.output = FALSE]
             built == Rebuilt(free, tp.asc)
             t == [tp EXCEPT !.usacConfig = tp.asc]
  <2>2. c = [tp |-> t, dec |-> built]
    BY <1>1, <1>3, <2>1 DEF AfterClear, Cleared
  <2>3. t.bare = tp.bare
    BY <1>1 DEF TpType
  <2>4. free \in DecType
    <3>1. free = [dec EXCEPT !.config = NoConfig, !.output = FALSE]
      BY DEF Freed
    <3> HIDE DEF free
    <3> QED BY <1>1, <3>1 DEF DecType
  <2>5. built.config = tp.asc
    <3>1. tp.asc \in Configs /\ built = Rebuilt(free, tp.asc)
      BY <1>1, <1>3 DEF TpType
    <3> HIDE DEF free, built
    <3> QED BY <2>4, <3>1, RebuiltFields
  <2> HIDE DEF c, t, built
  <2>6. c.tp = t /\ c.dec = built
    BY <2>2
  <2> QED BY <1>1, <2>3, <2>5, <2>6 DEF c
<1> QED BY <1>2, <1>3

LEMMA OthersKeepDecoder ==
  ASSUME RawStreams, IInv, Played, Kept, PlaysIntact,
         \/ \E u \in Coming : Lose(u)
         \/ \E u \in Coming, clear \in BOOLEAN : BeginDecode(u, clear)
         \/ \E what \in {"Conceal", "Flush"}, clear \in BOOLEAN : BeginOther(what, clear)
         \/ Configure
         \/ UNCHANGED vars
  PROVE  Kept' /\ PlaysIntact'
<1>1. /\ Built /\ (tp.bare => scenario.clears = 0)
      /\ tp.usacConfig \in scenario.configs \cup {NoConfig}
      /\ dec.flushStatus => au.damage = "Config" \/ au.of # tp.usacConfig
  BY DEF Kept
<1>2. CASE \E u \in Coming : Lose(u)
  <2>1. PICK u \in Coming : Lose(u)
    BY <1>2
  <2>2. /\ known' = (known /\ u.of = stream)
        /\ UNCHANGED <<scenario, tp, dec, pc, op, au, did>>
    BY <2>1 DEF Lose
  <2>3. known' => known
    BY <2>2
  <2> QED BY <1>1, <2>2, <2>3 DEF Kept, Built, PlaysIntact
<1>3. CASE \E u \in Coming, clear \in BOOLEAN : BeginDecode(u, clear)
  <2>1. PICK u \in Coming, clear \in BOOLEAN : BeginDecode(u, clear)
    BY <1>3
  <2> DEFINE c == AfterClear(clear)
  <2>2. /\ pc = "Idle" /\ Clear(clear) /\ tp' = c.tp /\ dec' = c.dec /\ Enter("Decode")
        /\ scenario' = scenario
    <3>1. ~Loas
      BY RawStream
    <3> QED BY <2>1, <3>1 DEF BeginDecode, Read
  <2>3. c.tp.asc = tp.asc /\ c.tp.usacConfig = tp.usacConfig /\ ~c.dec.flushStatus
    BY <2>2, ClearKeeps
  <2>4. c.tp.bare = tp.bare /\ (tp.asc # NoConfig => c.dec.config = tp.usacConfig)
    BY <2>2, ClearKeepsDecoder
  <2> HIDE DEF c
  <2>5. Kept'
    BY <1>1, <2>2, <2>3, <2>4 DEF Kept, Built
  <2>6. PlaysIntact'
    BY <2>2 DEF Enter, PlaysIntact
  <2> QED BY <2>5, <2>6
<1>4. CASE \E what \in {"Conceal", "Flush"}, clear \in BOOLEAN : BeginOther(what, clear)
  <2>1. PICK what \in {"Conceal", "Flush"}, clear \in BOOLEAN : BeginOther(what, clear)
    BY <1>4
  <2> DEFINE c == AfterClear(clear)
  <2>2. /\ pc = "Idle" /\ Clear(clear) /\ tp' = c.tp /\ dec' = c.dec /\ Enter(what)
        /\ scenario' = scenario
    BY <2>1 DEF BeginOther
  <2>3. c.tp.asc = tp.asc /\ c.tp.usacConfig = tp.usacConfig /\ ~c.dec.flushStatus
    BY <2>2, ClearKeeps
  <2>4. c.tp.bare = tp.bare /\ (tp.asc # NoConfig => c.dec.config = tp.usacConfig)
    BY <2>2, ClearKeepsDecoder
  <2> HIDE DEF c
  <2>5. Kept'
    BY <1>1, <2>2, <2>3, <2>4 DEF Kept, Built
  <2>6. PlaysIntact'
    BY <2>2 DEF Enter, PlaysIntact
  <2> QED BY <2>5, <2>6
<1>5. CASE Configure
  <2>1. /\ pc = "Idle" /\ tp.asc = NoConfig /\ dec' = Rebuilt(dec, stream)
        /\ tp' = [tp EXCEPT !.asc = stream, !.usacConfig = stream]
        /\ UNCHANGED <<scenario, au>>
    BY <1>5 DEF Configure
  <2>2. /\ tp \in TpType /\ dec \in DecType /\ stream \in Configs /\ ~dec.flushStatus
        /\ stream \in scenario.configs /\ ~au.indep
    BY <2>1, RawStream DEF IInv, Good, Control, FlushCompletes, Played, FirstAlone
  <2> DEFINE e == Rebuilt(dec, stream)
  <2>3. e.config = stream /\ e.flushStatus = dec.flushStatus
    <3>1. e = Rebuilt(dec, stream)
      OBVIOUS
    <3> HIDE DEF e
    <3> QED BY <2>2, <3>1, RebuiltFields
  <2>4. dec' = e
    BY <2>1
  <2> HIDE DEF e
  <2>5. tp'.asc = stream /\ tp'.usacConfig = stream /\ tp'.bare = tp.bare
    BY <2>1, <2>2 DEF TpType
  <2> QED BY <1>1, <2>1, <2>2, <2>3, <2>4, <2>5 DEF Kept, Built, PlaysIntact
<1>6. CASE UNCHANGED vars
  BY <1>1, <1>6 DEF vars, Kept, Built, PlaysIntact
<1> QED BY <1>2, <1>3, <1>4, <1>5, <1>6

\* An independent frame that arrives undamaged, with its configuration announced, is
\* never without output (CAacDecoder_DecodeFrame), if no history is cleared after a
\* change of the configuration in the band: the decoder that AACDEC_CLRHIST frees
\* then is not built again before the next immediate playout frame.
THEOREM IntactFramesPlay ==
  ASSUME RawStreams, ClearsKeepDecoder PROVE Spec => []PlaysIntact
<1>1. Init => Kept /\ PlaysIntact
  BY DEF Init, InitTp, InitDec, Kept, Built, PlaysIntact
<1>2. IInv /\ Played /\ Kept /\ PlaysIntact /\ [Next]_vars => Kept' /\ PlaysIntact'
  BY IterateKeepsDecoder, OthersKeepDecoder DEF Next
<1> QED BY <1>1, <1>2, PlayedInvariant, PTL DEF Spec
=============================================================================
