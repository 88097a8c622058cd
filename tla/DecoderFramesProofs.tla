------------------------ MODULE DecoderFramesProofs ------------------------
(***************************************************************************)
(* Proofs about the frames of a stream with SBR, for any settings, methods *)
(* and codecs and any number of troubles: the delays of all modules agree, *)
(* and data are applied with the header they were parsed with.             *)
(*                                                                         *)
(* What the SBR decoder needs for that is kept by every one of its         *)
(* operations (SoundSbr), whatever the concealment of the core shows.      *)
(*                                                                         *)
(* The second half, from Paired on, follows the slots over several calls   *)
(* together with the buffer of the concealment, whose steps                *)
(* ConcealmentProofs describes: data are rendered with the frame of the    *)
(* core they came with, and two headers in a row bring SBR back.           *)
(***************************************************************************)
EXTENDS DecoderFrames, ConcealmentProofs

HeadersValid(s) == \A h \in Slot : Synced(s.header[h]) => s.header[h].settings \in Settings

\* What was parsed for a frame goes with the header of its slot.
DataFit(s) ==
  \A k \in Slot :
    (~s.frameErrorFlag[k] /\ Synced(s.header[s.useHeaderSlot[k]])) =>
      s.data[k].settings = s.header[s.useHeaderSlot[k]].settings

SoundSbr(s) == s \in SbrDecoder /\ HeadersValid(s) /\ DataFit(s)

-----------------------------------------------------------------------------
LEMMA ConstantsOK == OldestData \in Nat /\ MaxTroubles \in Nat
BY FramesAssumption, ConcealAssumption

LEMMA Fields ==
  ASSUME NEW s \in SbrDecoder
  PROVE  /\ s.numDelayFrames \in 0..1 /\ s.useFrameSlot \in Slot
         /\ s.useHeaderSlot \in [Slot -> Slot] /\ s.frameErrorFlag \in [Slot -> BOOLEAN]
         /\ s.header \in [Slot -> SbrHeader] /\ s.data \in [Slot -> FrameData]
         /\ s.forceReset \in BOOLEAN /\ s.flush \in BOOLEAN /\ s.numFlushedFrames \in 0..2
BY DEF SbrDecoder

LEMMA HeaderFields ==
  ASSUME NEW h \in SbrHeader
  PROVE  /\ h.syncState \in SyncState /\ h.settings \in Settings \cup {"Default", "Invalid"}
         /\ h.reset \in BOOLEAN /\ h.update \in BOOLEAN /\ h.frameErrorFlag \in BOOLEAN
BY DEF SbrHeader

LEMMA DefaultTyped == DefaultHeader \in SbrHeader /\ ~Synced(DefaultHeader)
BY DEF DefaultHeader, SbrHeader, SyncState, Synced

LEMMA ToUpsamplingTyped ==
  ASSUME NEW h \in SbrHeader
  PROVE  ToUpsampling(h) \in SbrHeader /\ ~Synced(ToUpsampling(h))
BY DEF ToUpsampling, SbrHeader, SyncState, Synced

\* Whatever else changes, with no header in sync there is nothing to fit.
LEMMA UnsyncedSound ==
  ASSUME NEW s \in SbrDecoder, \A h \in Slot : ~Synced(s.header[h])
  PROVE  SoundSbr(s)
BY Fields DEF SoundSbr, HeadersValid, DataFit

LEMMA NewSound == ASSUME NEW d \in 0..1 PROVE SoundSbr(NewDecoder(d))
<1> DEFINE s == NewDecoder(d)
<1>1. s \in SbrDecoder
  <2>1. [age |-> OldestData, settings |-> "Default"] \in FrameData
    BY ConstantsOK DEF FrameData
  <2>2. 0 \in Slot /\ 0 \in 0..2
    BY DEF Slot
  <2> QED BY <2>1, <2>2, DefaultTyped DEF NewDecoder, SbrDecoder
<1>2. \A h \in Slot : ~Synced(s.header[h])
  BY DefaultTyped DEF NewDecoder
<1> QED BY <1>1, <1>2, UnsyncedSound

LEMMA DelaySound ==
  ASSUME NEW s, SoundSbr(s), NEW d \in 0..1
  PROVE  SoundSbr([s EXCEPT !.numDelayFrames = d]) /\ [s EXCEPT !.numDelayFrames = d].numDelayFrames = d
<1> DEFINE t == [s EXCEPT !.numDelayFrames = d]
<1>1. s \in SbrDecoder
  BY DEF SoundSbr
<1>2. t \in SbrDecoder
  BY <1>1 DEF SbrDecoder
<1>3. /\ t.header = s.header /\ t.useHeaderSlot = s.useHeaderSlot /\ t.data = s.data
      /\ t.frameErrorFlag = s.frameErrorFlag /\ t.numDelayFrames = d
  BY <1>1 DEF SbrDecoder
<1> HIDE DEF t
<1>4. HeadersValid(t) /\ DataFit(t)
  BY <1>3 DEF SoundSbr, HeadersValid, DataFit
<1> QED BY <1>2, <1>3, <1>4 DEF SoundSbr, t

LEMMA AgedSound ==
  ASSUME NEW s, SoundSbr(s)
  PROVE  SoundSbr(AgedData(s)) /\ AgedData(s).numDelayFrames = s.numDelayFrames
<1> DEFINE aged == [k \in Slot |-> [s.data[k] EXCEPT !.age = IF @ < OldestData THEN @ + 1 ELSE @]]
           t == AgedData(s)
<1>1. s \in SbrDecoder /\ s.data \in [Slot -> FrameData]
  BY Fields DEF SoundSbr
<1>2. \A k \in Slot : aged[k] \in FrameData /\ aged[k].settings = s.data[k].settings
  <2> TAKE k \in Slot
  <2> DEFINE d == s.data[k]
             age == IF d.age < OldestData THEN d.age + 1 ELSE d.age
  <2>1. d \in FrameData /\ d.age \in 0..OldestData
    BY <1>1 DEF FrameData
  <2>2. age \in 0..OldestData
    BY <2>1, ConstantsOK
  <2>3. aged[k] = [d EXCEPT !.age = age]
    OBVIOUS
  <2> HIDE DEF age, d, aged
  <2>4. [d EXCEPT !.age = age] \in FrameData /\ [d EXCEPT !.age = age].settings = d.settings
    BY <2>1, <2>2 DEF FrameData
  <2> QED BY <2>3, <2>4 DEF d
<1>3. aged \in [Slot -> FrameData]
  BY <1>2
<1>4. t = [s EXCEPT !.data = aged]
  BY DEF AgedData
<1> HIDE DEF aged, t
<1>5. t \in SbrDecoder
  BY <1>1, <1>3, <1>4 DEF SbrDecoder
<1>6. /\ t.header = s.header /\ t.useHeaderSlot = s.useHeaderSlot /\ t.data = aged
      /\ t.frameErrorFlag = s.frameErrorFlag /\ t.numDelayFrames = s.numDelayFrames
  BY <1>1, <1>4 DEF SbrDecoder
<1>7. HeadersValid(t) /\ DataFit(t)
  BY <1>2, <1>6 DEF SoundSbr, HeadersValid, DataFit
<1> QED BY <1>5, <1>6, <1>7 DEF SoundSbr, t

\* A header slot that is not another frame's.
LEMMA HeaderSlotIsOwn ==
  ASSUME NEW s \in SbrDecoder, NEW k \in Slot
  PROVE  /\ HeaderSlot(s, k) \in Slot
         /\ \A j \in Slot \ {k} : s.useHeaderSlot[j] # HeaderSlot(s, k)
<1> DEFINE slot == s.useHeaderSlot[k]
           occupied == \E j \in Slot \ {slot} : s.useHeaderSlot[j] = slot
           free == {h \in Slot : \A j \in Slot : s.useHeaderSlot[j] # h}
<1>1. slot \in Slot /\ s.useHeaderSlot \in [Slot -> Slot] /\ Slot = {0, 1}
  BY Fields DEF Slot
<1>2. HeaderSlot(s, k) = IF occupied /\ free # {}
                         THEN CHOOSE h \in free : \A g \in free : h <= g ELSE slot
  BY DEF HeaderSlot
<1>3. CASE occupied /\ free # {}
  <2>1. \E h \in free : \A g \in free : h <= g
    BY <1>1, <1>3
  <2>2. HeaderSlot(s, k) \in free
    BY <1>2, <1>3, <2>1
  <2> QED BY <2>2
<1>4. CASE ~(occupied /\ free # {})
  <2>1. HeaderSlot(s, k) = slot
    BY <1>2, <1>4
  <2>2. \A j \in Slot \ {k} : s.useHeaderSlot[j] # slot
    BY <1>1, <1>4
  <2> QED BY <1>1, <2>1, <2>2
<1> QED BY <1>3, <1>4

LEMMA InterruptedSound ==
  ASSUME NEW s, SoundSbr(s)
  PROVE  SoundSbr(Interrupted(s)) /\ Interrupted(s).numDelayFrames = s.numDelayFrames
<1> DEFINE slot == HeaderSlot(s, s.useFrameSlot)
           h == [s.header[slot] EXCEPT !.syncState = "Upsampling", !.update = TRUE]
           t == [s EXCEPT !.header[slot] = h]
<1>1. s \in SbrDecoder /\ slot \in Slot /\ s.header \in [Slot -> SbrHeader]
  BY Fields, HeaderSlotIsOwn DEF SoundSbr
<1>2. CASE s.header[slot].syncState = "NotInitialized"
  BY <1>2 DEF Interrupted
<1>3. CASE s.header[slot].syncState # "NotInitialized"
  <2>1. Interrupted(s) = [s EXCEPT !.header[slot].syncState = "Upsampling", !.header[slot].update = TRUE]
    BY <1>3 DEF Interrupted
  <2> HIDE DEF slot
  <2>2. Interrupted(s) = t
    BY <2>1, <1>1 DEF SbrDecoder, SbrHeader
  <2>3. h \in SbrHeader /\ ~Synced(h)
    <3>1. s.header[slot] \in SbrHeader
      BY <1>1
    <3> QED BY <3>1 DEF SbrHeader, SyncState, Synced
  <2> HIDE DEF h
  <2>4. t \in SbrDecoder
    BY <1>1, <2>3 DEF SbrDecoder
  <2>5. /\ t.header = [s.header EXCEPT ![slot] = h]
        /\ t.useHeaderSlot = s.useHeaderSlot /\ t.data = s.data
        /\ t.frameErrorFlag = s.frameErrorFlag /\ t.numDelayFrames = s.numDelayFrames
    BY <1>1 DEF SbrDecoder
  <2> HIDE DEF t
  <2>6. \A g \in Slot : Synced(t.header[g]) => t.header[g] = s.header[g]
    BY <1>1, <2>3, <2>5
  <2>7. t.useHeaderSlot \in [Slot -> Slot]
    BY <2>4, Fields
  <2>8. HeadersValid(t) /\ DataFit(t)
    BY <2>5, <2>6, <2>7 DEF SoundSbr, HeadersValid, DataFit
  <2> QED BY <2>2, <2>4, <2>5, <2>8 DEF SoundSbr
<1> QED BY <1>2, <1>3

LEMMA InitElementSound ==
  ASSUME NEW s, SoundSbr(s)
  PROVE  SoundSbr(InitElement(s)) /\ InitElement(s).numDelayFrames = s.numDelayFrames
<1>1. CASE ~s.forceReset
  BY <1>1 DEF InitElement
<1>2. CASE s.forceReset
  <2> DEFINE flags == [k \in Slot |-> FALSE]
             r == [s EXCEPT !.frameErrorFlag = flags]
             defaults == [k \in Slot |-> DefaultHeader]
             same == [k \in Slot |-> k]
             t == [r EXCEPT !.header = defaults, !.useFrameSlot = 0, !.useHeaderSlot = same]
  <2>1. s \in SbrDecoder /\ flags \in [Slot -> BOOLEAN]
    BY DEF SoundSbr
  <2>2. r \in SbrDecoder /\ r.forceReset = s.forceReset /\ r.numDelayFrames = s.numDelayFrames
    <3> HIDE DEF flags
    <3> QED BY <2>1 DEF SbrDecoder
  <2>3. InitElement(s) = ResetElement(r)
    BY <1>2 DEF InitElement
  <2>4. defaults \in [Slot -> SbrHeader] /\ same \in [Slot -> Slot] /\ 0 \in Slot
    BY DefaultTyped DEF Slot
  <2> HIDE DEF r
  <2>5. ResetElement(r) = t
    BY <1>2, <2>2 DEF ResetElement
  <2> HIDE DEF same
  <2>6. t \in SbrDecoder /\ t.header = defaults /\ t.numDelayFrames = r.numDelayFrames
    <3> DEFINE zero == 0
    <3>1. zero \in Slot
      BY <2>4
    <3> HIDE DEF zero, defaults
    <3> DEFINE t0 == [r EXCEPT !.header = defaults, !.useFrameSlot = zero, !.useHeaderSlot = same]
    <3>3. t0 \in SbrDecoder /\ t0.header = defaults /\ t0.numDelayFrames = r.numDelayFrames
      BY <2>2, <2>4, <3>1 DEF SbrDecoder
    <3> QED BY <3>3 DEF zero
  <2>7. \A h \in Slot : ~Synced(t.header[h])
    BY <2>6, DefaultTyped
  <2> HIDE DEF t
  <2> QED BY <2>2, <2>3, <2>5, <2>6, <2>7, UnsyncedSound
<1> QED BY <1>1, <1>2

-----------------------------------------------------------------------------
Valid(h) == h \in SbrHeader /\ (Synced(h) => h.settings \in Settings)

LEMMA SoundHeaders ==
  ASSUME NEW s, SoundSbr(s)
  PROVE  \A h \in Slot : Valid(s.header[h])
BY Fields DEF SoundSbr, HeadersValid, Valid

LEMMA ReadHeaderValid ==
  ASSUME NEW h, Valid(h), NEW set \in Settings \cup {"None", "Invalid"}
  PROVE  /\ Valid(ReadHeader(h, set).header)
         /\ ReadHeader(h, set).status = "NotPresent" => ReadHeader(h, set).header = h
<1> DEFINE taken == [h EXCEPT !.settings = set]
           broken == [taken EXCEPT !.syncState = "NotInitialized"]
           new == [taken EXCEPT !.syncState = "Header", !.reset = TRUE]
           fresh == ~Synced(h) \/ h.settings # set
           r == ReadHeader(h, set)
<1>1. CASE set = "None"
  <2>1. r = Parsing(h, "NotPresent")
    BY <1>1 DEF ReadHeader
  <2> QED BY <2>1 DEF Parsing
<1>2. CASE set # "None" /\ ~fresh
  <2>1. r = Parsing(h, "Ok")
    BY <1>2 DEF ReadHeader
  <2> QED BY <2>1 DEF Parsing
<1>3. CASE set = "Invalid" /\ fresh
  <2>1. r = Parsing(broken, "Error")
    BY <1>3 DEF ReadHeader
  <2>2. broken \in SbrHeader /\ ~Synced(broken)
    BY <1>3 DEF Valid, SbrHeader, SyncState, Synced
  <2> HIDE DEF broken
  <2> QED BY <2>1, <2>2 DEF Parsing, Valid
<1>4. CASE set \in Settings /\ fresh /\ set \notin {"None", "Invalid"}
  <2>1. r = Parsing(new, "Reset")
    BY <1>4 DEF ReadHeader
  <2>2. new \in SbrHeader /\ new.settings = set
    BY <1>4 DEF Valid, SbrHeader, SyncState
  <2> HIDE DEF new
  <2> QED BY <1>4, <2>1, <2>2 DEF Parsing, Valid
<1> QED BY <1>1, <1>2, <1>3, <1>4

LEMMA LastTyped == ASSUME NEW s \in SbrDecoder PROVE Last(s) \in Slot
<1>1. (IF s.useFrameSlot > 0 THEN s.useFrameSlot - 1 ELSE s.numDelayFrames) \in Slot
  BY Fields DEF Slot
<1> QED BY <1>1, Fields DEF Last

\* Without a header in the payload the frame goes on with the last frame's.
LEMMA ParsedHeaderValid ==
  ASSUME NEW s, SoundSbr(s), NEW p \in Payload
  PROVE  /\ Valid(ParsedHeader(s, p).header)
         /\ ParsedHeader(s, p).status = "NotPresent" =>
              ParsedHeader(s, p).header = s.header[Last(s)]
<1> DEFINE this == HeaderSlot(s, s.useFrameSlot)
           updated == [s.header[this] EXCEPT !.update = FALSE]
           before == ContinuedHeader(s)
           after == ReadHeader(before.header, p.header)
<1>1. s \in SbrDecoder /\ this \in Slot /\ Last(s) \in Slot
  BY Fields, HeaderSlotIsOwn, LastTyped DEF SoundSbr
<1>2. Valid(s.header[this]) /\ Valid(s.header[Last(s)])
  BY <1>1, SoundHeaders
<1>3. /\ Valid(before.header)
      /\ before.status = "NotPresent" => before.header = s.header[Last(s)]
  <2>1. CASE s.header[this].update
    <3>1. before = Parsing(updated, "Ok")
      BY <2>1 DEF ContinuedHeader
    <3>2. Valid(updated)
      <4> HIDE DEF this
      <4> QED BY <1>2 DEF Valid, SbrHeader, Synced
    <3> HIDE DEF updated
    <3> QED BY <3>1, <3>2 DEF Parsing
  <2>2. CASE ~s.header[this].update
    <3>1. before = Parsing(s.header[Last(s)], "NotPresent")
      BY <2>2 DEF ContinuedHeader
    <3> QED BY <1>2, <3>1 DEF Parsing
  <2> QED BY <2>1, <2>2
<1>4. p.header \in Settings \cup {"None", "Invalid"}
  BY DEF Payload
<1>5. /\ Valid(after.header)
  BY <1>3, <1>4, ReadHeaderValid
<1>6. ParsedHeader(s, p) = IF after.status = "NotPresent" THEN before ELSE after
  BY DEF ParsedHeader
<1> HIDE DEF before, after
<1> QED BY <1>3, <1>5, <1>6

LEMMA AdvanceSound ==
  ASSUME NEW s, SoundSbr(s)
  PROVE  SoundSbr(Advance(s)) /\ Advance(s).numDelayFrames = s.numDelayFrames
<1> DEFINE n == (s.useFrameSlot + 1) % (s.numDelayFrames + 1)
           t == [s EXCEPT !.useFrameSlot = n]
<1>1. s \in SbrDecoder
  BY DEF SoundSbr
<1>2. s.numDelayFrames \in {0, 1} /\ s.useFrameSlot \in {0, 1}
  BY <1>1, Fields DEF Slot
<1>3. n \in Slot
  BY <1>2 DEF Slot
<1>4. Advance(s) = t
  BY DEF Advance
<1> HIDE DEF n
<1>5. /\ t \in SbrDecoder /\ t.header = s.header /\ t.useHeaderSlot = s.useHeaderSlot
      /\ t.data = s.data /\ t.frameErrorFlag = s.frameErrorFlag
      /\ t.numDelayFrames = s.numDelayFrames
  BY <1>1, <1>3 DEF SbrDecoder
<1> HIDE DEF t
<1> QED BY <1>4, <1>5 DEF SoundSbr, HeadersValid, DataFit

\* A frame that is parsed goes with the header it was parsed with, be it its own or
\* the one of the frame before; the other frame's header is not touched.
LEMMA ParseSound ==
  ASSUME NEW s, SoundSbr(s), NEW p \in Payload
  PROVE  SoundSbr(Parse(s, p)) /\ Parse(s, p).numDelayFrames = s.numDelayFrames
<1> DEFINE use == s.useFrameSlot
           this == HeaderSlot(s, use)
           read == ParsedHeader(s, p)
           data == ReadsData(read.header, read.status)
           fine == read.status # "Error" /\ (data => p.data = "Ok")
           crc == data /\ p.data = "Crc"
           end == Checked(read.header, read.status, crc)
           old == \/ end.status \in {"NotPresent", "Error"}
                  \/ end.status = "Reset" /\ ~fine
                  \/ this # Last(s) /\ end.header = s.header[Last(s)]
           new == IF data /\ fine THEN [age |-> 0, settings |-> read.header.settings]
                                  ELSE s.data[use]
           own == HeaderOf(s, old)
           t == [s EXCEPT !.header[this] = end.header, !.frameErrorFlag[use] = ~fine,
                          !.data[use] = new, !.useHeaderSlot[use] = own]
<1>1. /\ s \in SbrDecoder /\ use \in Slot /\ this \in Slot /\ Last(s) \in Slot
      /\ s.header \in [Slot -> SbrHeader] /\ s.data \in [Slot -> FrameData]
      /\ s.useHeaderSlot \in [Slot -> Slot] /\ s.frameErrorFlag \in [Slot -> BOOLEAN]
      /\ \A j \in Slot \ {use} : s.useHeaderSlot[j] # this
  BY Fields, HeaderSlotIsOwn, LastTyped DEF SoundSbr
<1>2. Parse(s, p) = Advance(t)
  BY DEF Parse
<1>3. /\ Valid(read.header)
      /\ read.status = "NotPresent" => read.header = s.header[Last(s)]
  BY ParsedHeaderValid
<1>4. data <=> Synced(read.header) /\ read.status # "Error"
  BY DEF ReadsData
<1>5. /\ Valid(end.header)
      /\ \/ crc /\ end.status = "Error"
         \/ end.header = read.header /\ end.status = read.status
  <2>1. CASE crc /\ read.status # "NotPresent"
    <3> DEFINE broken == [read.header EXCEPT !.syncState = "NotInitialized"]
    <3>1. end = Parsing(broken, "Error")
      BY <2>1 DEF Checked
    <3>2. broken \in SbrHeader /\ ~Synced(broken)
      <4> HIDE DEF read
      <4> QED BY <1>3 DEF Valid, SbrHeader, SyncState, Synced
    <3> HIDE DEF broken
    <3> QED BY <2>1, <3>1, <3>2 DEF Parsing, Valid
  <2>2. CASE ~(crc /\ read.status # "NotPresent")
    <3>1. end = Parsing(read.header, read.status)
      BY <2>2 DEF Checked
    <3> QED BY <1>3, <3>1 DEF Parsing
  <2> QED BY <2>1, <2>2
<1> HIDE DEF read, end
<1>6. fine => ~crc
  OBVIOUS
<1>7. new \in FrameData
  <2>1. CASE data /\ fine
    <3> DEFINE zero == 0
    <3>1. read.header.settings \in Settings /\ zero \in 0..OldestData
      BY <1>3, <1>4, <2>1, ConstantsOK DEF Valid
    <3> HIDE DEF zero
    <3>2. [age |-> zero, settings |-> read.header.settings] \in FrameData
      BY <3>1 DEF FrameData
    <3> QED BY <2>1, <3>2 DEF zero
  <2>2. CASE ~(data /\ fine)
    BY <1>1, <2>2
  <2> QED BY <2>1, <2>2
<1>8. own = IF old THEN Last(s) ELSE this
  BY DEF HeaderOf
<1>9. (data /\ fine) => new.settings = read.header.settings
  OBVIOUS
\* What the frame goes with is what it was parsed with.
<1>10. (fine /\ Synced([s.header EXCEPT ![this] = end.header][own])) =>
         new.settings = [s.header EXCEPT ![this] = end.header][own].settings
  <2> SUFFICES ASSUME fine, Synced([s.header EXCEPT ![this] = end.header][own])
               PROVE  new.settings = [s.header EXCEPT ![this] = end.header][own].settings
    OBVIOUS
  <2>1. end.header = read.header /\ end.status = read.status /\ read.status # "Error"
    BY <1>5, <1>6
  <2>2. [s.header EXCEPT ![this] = end.header][own] = read.header
    <3>1. CASE old
      <4>1. own = Last(s)
        BY <1>8, <3>1
      <4>2. CASE Last(s) = this
        BY <1>1, <2>1, <4>1, <4>2
      <4>3. CASE Last(s) # this
        <5>1. [s.header EXCEPT ![this] = end.header][own] = s.header[Last(s)]
          BY <1>1, <4>1, <4>3
        <5>2. end.status = "NotPresent" \/ end.header = s.header[Last(s)]
          BY <2>1, <3>1
        <5> QED BY <1>3, <2>1, <5>1, <5>2
      <4> QED BY <4>2, <4>3
    <3>2. CASE ~old
      BY <1>1, <1>8, <2>1, <3>2
    <3> QED BY <3>1, <3>2
  <2>3. data
    BY <1>4, <2>1, <2>2
  <2> QED BY <1>9, <2>2, <2>3
<1>11. own \in Slot
  BY <1>1, <1>8
<1> DEFINE flag == ~fine
<1>12. flag \in BOOLEAN
  OBVIOUS
<1> HIDE DEF new, own, flag, this, use
<1> DEFINE u == [s EXCEPT !.header[this] = end.header, !.frameErrorFlag[use] = flag,
                          !.data[use] = new, !.useHeaderSlot[use] = own]
<1>13. /\ u \in SbrDecoder
       /\ u.header = [s.header EXCEPT ![this] = end.header]
       /\ u.frameErrorFlag = [s.frameErrorFlag EXCEPT ![use] = flag]
       /\ u.data = [s.data EXCEPT ![use] = new]
       /\ u.useHeaderSlot = [s.useHeaderSlot EXCEPT ![use] = own]
       /\ u.numDelayFrames = s.numDelayFrames
  BY <1>1, <1>5, <1>7, <1>11, <1>12 DEF SbrDecoder, Valid
<1>14. t = u
  BY DEF flag, use, this, new, own
<1> HIDE DEF t, u
<1>15. HeadersValid(u)
  <2> SUFFICES ASSUME NEW h \in Slot PROVE Synced(u.header[h]) => u.header[h].settings \in Settings
    BY DEF HeadersValid
  <2>1. Valid(u.header[h])
    BY <1>1, <1>5, <1>13, SoundHeaders
  <2> QED BY <2>1 DEF Valid
<1>16. DataFit(u)
  <2> SUFFICES ASSUME NEW k \in Slot, ~u.frameErrorFlag[k],
                      Synced(u.header[u.useHeaderSlot[k]])
               PROVE  u.data[k].settings = u.header[u.useHeaderSlot[k]].settings
    BY DEF DataFit
  <2>1. CASE k = use
    <3>1. u.useHeaderSlot[k] = own /\ u.data[k] = new /\ u.frameErrorFlag[k] = flag
      BY <1>1, <1>13, <2>1
    <3> QED BY <1>10, <1>13, <3>1 DEF flag
  <2>2. CASE k # use
    <3>1. /\ u.useHeaderSlot[k] = s.useHeaderSlot[k] /\ u.data[k] = s.data[k]
          /\ u.frameErrorFlag[k] = s.frameErrorFlag[k]
      BY <1>1, <1>13, <2>2
    <3>2. u.header[s.useHeaderSlot[k]] = s.header[s.useHeaderSlot[k]]
      BY <1>1, <1>13, <2>2
    <3> QED BY <3>1, <3>2 DEF SoundSbr, DataFit
  <2> QED BY <2>1, <2>2
<1>17. SoundSbr(u)
  BY <1>13, <1>15, <1>16 DEF SoundSbr
<1> QED BY <1>2, <1>13, <1>14, <1>17, AdvanceSound

-----------------------------------------------------------------------------
LEMMA FlushedSound ==
  ASSUME NEW s, SoundSbr(s)
  PROVE  SoundSbr(Flushed(s)) /\ Flushed(s).numDelayFrames = s.numDelayFrames
<1> DEFINE upsampling == [k \in Slot |-> ToUpsampling(s.header[k])]
           t == [s EXCEPT !.header = upsampling]
<1>1. CASE ~s.flush
  BY <1>1 DEF Flushed
<1>2. CASE s.flush /\ ~(s.numFlushedFrames > s.numDelayFrames)
  <2>1. Flushed(s) = Advance(s)
    BY <1>2 DEF Flushed
  <2> QED BY <2>1, AdvanceSound
<1>3. CASE s.flush /\ s.numFlushedFrames > s.numDelayFrames
  <2>1. Flushed(s) = t
    BY <1>3 DEF Flushed
  <2>2. s \in SbrDecoder /\ upsampling \in [Slot -> SbrHeader]
    BY Fields, ToUpsamplingTyped DEF SoundSbr
  <2>3. \A k \in Slot : ~Synced(upsampling[k])
    BY <2>2, Fields, ToUpsamplingTyped
  <2> HIDE DEF upsampling
  <2>4. t \in SbrDecoder /\ t.header = upsampling /\ t.numDelayFrames = s.numDelayFrames
    BY <2>2 DEF SbrDecoder
  <2> HIDE DEF t
  <2> QED BY <2>1, <2>3, <2>4, UnsyncedSound
<1> QED BY <1>1, <1>2, <1>3

LEMMA FailedSound ==
  ASSUME NEW s, SoundSbr(s)
  PROVE  SoundSbr(Failed(s)) /\ Failed(s).numDelayFrames = s.numDelayFrames
<1> DEFINE flags == [k \in Slot |-> TRUE]
           t == [s EXCEPT !.frameErrorFlag = flags]
<1>1. s \in SbrDecoder /\ flags \in [Slot -> BOOLEAN] /\ \A k \in Slot : flags[k]
  BY DEF SoundSbr
<1>2. Failed(s) = t
  BY DEF Failed
<1> HIDE DEF flags
<1>3. /\ t \in SbrDecoder /\ t.frameErrorFlag = flags /\ t.header = s.header
      /\ t.numDelayFrames = s.numDelayFrames
  BY <1>1 DEF SbrDecoder
<1> HIDE DEF t
<1> QED BY <1>1, <1>2, <1>3 DEF SoundSbr, HeadersValid, DataFit

LEMMA CountedSound ==
  ASSUME NEW s, SoundSbr(s), NEW n \in 0..2
  PROVE  /\ SoundSbr([s EXCEPT !.numFlushedFrames = n])
         /\ [s EXCEPT !.numFlushedFrames = n].numDelayFrames = s.numDelayFrames
<1> DEFINE t == [s EXCEPT !.numFlushedFrames = n]
<1>1. s \in SbrDecoder
  BY DEF SoundSbr
<1>2. /\ t \in SbrDecoder /\ t.header = s.header /\ t.useHeaderSlot = s.useHeaderSlot
      /\ t.data = s.data /\ t.frameErrorFlag = s.frameErrorFlag
      /\ t.numDelayFrames = s.numDelayFrames
  BY <1>1 DEF SbrDecoder
<1> HIDE DEF t
<1>3. SoundSbr(t)
  BY <1>2 DEF SoundSbr, HeadersValid, DataFit
<1> QED BY <1>2, <1>3 DEF t

\* What rendering makes of a header: it does not come into sync by that, and it
\* keeps its settings.
LEMMA RenderedHeader ==
  ASSUME NEW h, Valid(h), NEW flag \in BOOLEAN
  PROVE  LET g == Decodes(Resets([h EXCEPT !.frameErrorFlag = flag]))
         IN  /\ Valid(g)
             /\ Synced(g) => (Synced(h) /\ g.settings = h.settings /\ g.frameErrorFlag = flag)
<1> DEFINE f == [h EXCEPT !.frameErrorFlag = flag]
           r == Resets(f)
           g == Decodes(r)
<1>1. /\ f \in SbrHeader /\ f.syncState = h.syncState /\ f.settings = h.settings
      /\ f.frameErrorFlag = flag
  BY DEF Valid, SbrHeader
<1>2. h.syncState \in SyncState /\ (Synced(h) => h.settings \in Settings)
  BY DEF Valid, SbrHeader
<1> HIDE DEF f
<1>3. /\ r \in SbrHeader
      /\ Synced(r) => (Synced(h) /\ r.settings = h.settings /\ r.frameErrorFlag = flag)
  <2>1. CASE f.syncState = "NotInitialized"
    <3> DEFINE d == [DefaultHeader EXCEPT !.syncState = "Upsampling", !.reset = TRUE]
    <3>1. r = d
      BY <2>1 DEF Resets
    <3>2. d \in SbrHeader /\ ~Synced(d)
      BY DefaultTyped DEF SbrHeader, SyncState, Synced
    <3> HIDE DEF d, r
    <3> QED BY <3>1, <3>2
  <2>2. CASE f.syncState # "NotInitialized"
    <3> DEFINE b == f.reset /\ ~ (f.syncState = "Active" \/
                                  (f.syncState = "Header" /\ ~f.frameErrorFlag))
               d == [f EXCEPT !.reset = b]
    <3>1. r = d
      BY <2>2 DEF Resets
    <3>2. b \in BOOLEAN
      OBVIOUS
    <3> HIDE DEF b
    <3>3. /\ d \in SbrHeader /\ d.syncState = f.syncState /\ d.settings = f.settings
          /\ d.frameErrorFlag = f.frameErrorFlag
      BY <1>1, <3>2 DEF SbrHeader
    <3> HIDE DEF d, r
    <3> QED BY <1>1, <3>1, <3>3 DEF Synced
  <2> QED BY <2>1, <2>2
<1> HIDE DEF r
<1>4. /\ g \in SbrHeader
      /\ Synced(g) => (Synced(r) /\ g.settings = r.settings /\ g.frameErrorFlag = r.frameErrorFlag)
  <2>1. CASE r.syncState = "Header" /\ ~r.frameErrorFlag
    <3> DEFINE d == [r EXCEPT !.syncState = "Active"]
    <3>1. g = d
      BY <2>1 DEF Decodes
    <3>2. d \in SbrHeader /\ d.settings = r.settings /\ d.frameErrorFlag = r.frameErrorFlag
      BY <1>3 DEF SbrHeader, SyncState
    <3> HIDE DEF d, g
    <3> QED BY <2>1, <3>1, <3>2 DEF Synced
  <2>2. CASE ~(r.syncState = "Header" /\ ~r.frameErrorFlag)
    BY <1>3, <2>2 DEF Decodes
  <2> QED BY <2>1, <2>2
<1> QED BY <1>2, <1>3, <1>4 DEF Valid, r, f

\* What is rendered has the header it was parsed with.
Fitting(r) == r.mode = "Decoded" => r.parsed = r.applied

LEMMA ApplySbrSound ==
  ASSUME NEW s, SoundSbr(s), NEW ok \in BOOLEAN
  PROVE  /\ SoundSbr(Apply(s, ok).sbr) /\ Apply(s, ok).sbr.numDelayFrames = s.numDelayFrames
         /\ Apply(s, ok).rendered \in Rendering /\ Fitting(Apply(s, ok).rendered)
<1> DEFINE n == IF s.flush THEN IF s.numFlushedFrames < 2 THEN s.numFlushedFrames + 1
                                ELSE s.numFlushedFrames
                ELSE 0
           counted == [s EXCEPT !.numFlushedFrames = n]
           t == Flushed(IF ok THEN counted ELSE Failed(counted))
           slot == t.useHeaderSlot[t.useFrameSlot]
           flag == t.frameErrorFlag[t.useFrameSlot]
           h == Decodes(Resets([t.header[slot] EXCEPT !.frameErrorFlag = flag]))
           d == t.data[t.useFrameSlot]
           no == FALSE
           u == [t EXCEPT !.header[slot] = h, !.forceReset = no, !.flush = no]
<1>1. n \in 0..2
  <2>1. s.numFlushedFrames \in 0..2
    BY Fields DEF SoundSbr
  <2> QED BY <2>1
<1>2. Apply(s, ok) = [sbr |-> u, rendered |-> Rendered(h, d)]
  BY DEF Apply
<1> HIDE DEF n
<1>3. SoundSbr(t) /\ t.numDelayFrames = s.numDelayFrames
  <2>1. SoundSbr(counted) /\ counted.numDelayFrames = s.numDelayFrames
    BY <1>1, CountedSound
  <2> HIDE DEF counted
  <2> QED BY <2>1, FailedSound, FlushedSound
<1> HIDE DEF t
<1>4. /\ t \in SbrDecoder /\ t.useFrameSlot \in Slot /\ slot \in Slot /\ flag \in BOOLEAN
      /\ d \in FrameData /\ t.header \in [Slot -> SbrHeader]
      /\ t.useHeaderSlot \in [Slot -> Slot] /\ Valid(t.header[slot])
  BY <1>3, Fields, SoundHeaders DEF SoundSbr
<1>5. /\ Valid(h)
      /\ Synced(h) => (Synced(t.header[slot]) /\ h.settings = t.header[slot].settings
                       /\ h.frameErrorFlag = flag)
  BY <1>4, RenderedHeader
<1>6. (Synced(t.header[slot]) /\ ~flag) => d.settings = t.header[slot].settings
  BY <1>3, <1>4 DEF SoundSbr, DataFit
<1> HIDE DEF h, d, flag
<1>7. Rendered(h, d) \in Rendering /\ Fitting(Rendered(h, d))
  <2>1. CASE h.syncState # "Active"
    <3>1. Rendered(h, d) = [mode |-> "Upsampled"]
      BY <2>1 DEF Rendered
    <3> QED BY <3>1 DEF Rendering, Fitting
  <2>2. CASE h.syncState = "Active" /\ h.frameErrorFlag
    <3>1. Rendered(h, d) = [mode |-> "Concealed"]
      BY <2>2 DEF Rendered
    <3> QED BY <3>1 DEF Rendering, Fitting
  <2>3. CASE h.syncState = "Active" /\ ~h.frameErrorFlag
    <3>1. Rendered(h, d) = [mode |-> "Decoded", age |-> d.age, parsed |-> d.settings,
                            applied |-> h.settings]
      BY <2>3 DEF Rendered
    <3>2. Synced(h) /\ ~flag
      BY <1>5, <2>3 DEF Synced
    <3>3. d.settings = h.settings /\ h.settings \in Settings
      BY <1>5, <1>6, <3>2 DEF Valid
    <3>4. d.age \in 0..OldestData
      BY <1>4 DEF FrameData
    <3> QED BY <3>1, <3>3, <3>4 DEF Rendering, Fitting
  <2> QED BY <2>1, <2>2, <2>3
<1> HIDE DEF slot
<1>8. no \in BOOLEAN
  OBVIOUS
<1> HIDE DEF no
<1>9. /\ u \in SbrDecoder /\ u.header = [t.header EXCEPT ![slot] = h]
      /\ u.useHeaderSlot = t.useHeaderSlot /\ u.data = t.data
      /\ u.frameErrorFlag = t.frameErrorFlag /\ u.numDelayFrames = t.numDelayFrames
  BY <1>4, <1>5, <1>8 DEF SbrDecoder, Valid
<1> HIDE DEF u
<1>10. \A g \in Slot : Synced(u.header[g]) =>
         (Synced(t.header[g]) /\ u.header[g].settings = t.header[g].settings)
  BY <1>4, <1>5, <1>9
<1>11. SoundSbr(u)
  BY <1>3, <1>4, <1>9, <1>10 DEF SoundSbr, HeadersValid, DataFit
<1> QED BY <1>2, <1>3, <1>7, <1>9, <1>11

-----------------------------------------------------------------------------
\* No interpolation for USAC: setConcealMethod may give up there without having
\* noted what to go back to.
FramesIInv ==
  /\ FramesTypeOK /\ DelaysAgree /\ HeaderFitsData
  /\ SoundSbr(sbr)
  /\ (codec = "USAC" => method # "Inter")

\* What a step makes of the decoder, but for the histories.
DecoderIInv ==
  /\ SoundSbr(sbr) /\ rendered \in Rendering /\ Fitting(rendered)
  /\ DelaysAgree
  /\ (codec = "USAC" => method # "Inter")

LEMMA DelayTyped == \A m : GetDelay(m) \in 0..1
BY DEF GetDelay

LEMMA DelaysKnown ==
  ASSUME FramesIInv
  PROVE  /\ delays.bsDelay = sbr.numDelayFrames /\ delays.drc = delays.bsDelay
         /\ delays.dmx = delays.bsDelay /\ delays.bsDelay = GetDelay(method)
         /\ delays.bsDelay \in 0..1 /\ SoundSbr(sbr)
BY DelayTyped DEF FramesIInv, DelaysAgree, AllDelays

LEMMA AppliedKeeps ==
  ASSUME FramesIInv, NEW s, SoundSbr(s), s.numDelayFrames = sbr.numDelayFrames,
         NEW coreOk \in BOOLEAN, ApplySbr(s, coreOk),
         UNCHANGED <<method, codec, delays, chosen>>
  PROVE  DecoderIInv'
<1> DEFINE ok == coreOk /\ Shown
           r == Apply([s EXCEPT !.numDelayFrames = delays.bsDelay], ok)
<1>1. ok \in BOOLEAN
  OBVIOUS
<1>2. sbr' = r.sbr /\ rendered' = r.rendered
  BY DEF ApplySbr
<1>3. /\ SoundSbr([s EXCEPT !.numDelayFrames = delays.bsDelay])
      /\ [s EXCEPT !.numDelayFrames = delays.bsDelay].numDelayFrames = sbr.numDelayFrames
  BY DelaysKnown, DelaySound
<1> HIDE DEF ok
<1>4. /\ SoundSbr(r.sbr) /\ r.sbr.numDelayFrames = sbr.numDelayFrames
      /\ r.rendered \in Rendering /\ Fitting(r.rendered)
  BY <1>1, <1>3, ApplySbrSound
<1> HIDE DEF r
<1>5. DelaysAgree'
  BY <1>2, <1>4 DEF FramesIInv, DelaysAgree
<1> QED BY <1>2, <1>4, <1>5 DEF FramesIInv, DecoderIInv

LEMMA Parsed2Sound ==
  ASSUME NEW s, SoundSbr(s), s = sbr, NEW p \in Payload \cup {NoPayload}
  PROVE  SoundSbr(Parsed2(p)) /\ Parsed2(p).numDelayFrames = sbr.numDelayFrames
<1> DEFINE t == AgedData(InitElement(sbr))
<1>1. SoundSbr(t) /\ t.numDelayFrames = sbr.numDelayFrames
  BY InitElementSound, AgedSound
<1>2. Parsed2(p) = IF p = NoPayload THEN t ELSE Parse(t, p)
  BY DEF Parsed2
<1> HIDE DEF t
<1> QED BY <1>1, <1>2, ParseSound

LEMMA DelaysReverted ==
  ASSUME NEW d \in [bsDelay : 0..1, drc : 0..1, dmx : 0..1], NEW g \in 0..1, d.bsDelay = g
  PROVE  [d EXCEPT !.drc = g, !.dmx = g] = AllDelays(g)
<1> DEFINE e == [d EXCEPT !.drc = g, !.dmx = g]
<1>1. /\ e \in [bsDelay : 0..1, drc : 0..1, dmx : 0..1]
      /\ e.bsDelay = g /\ e.drc = g /\ e.dmx = g
  OBVIOUS
<1> HIDE DEF e
<1>2. e = AllDelays(g)
  BY <1>1 DEF AllDelays
<1> QED BY <1>2 DEF e

LEMMA SetsMethodSound ==
  ASSUME FramesIInv, NEW s, SoundSbr(s), s.numDelayFrames = sbr.numDelayFrames, NEW m, NEW c \in Codecs,
         c = "USAC" => (m = "Noise" \/ (c = codec))
  PROVE  LET r == SetsMethod(m, s, delays, c)
         IN  /\ SoundSbr(r.sbr) /\ r.delays = AllDelays(GetDelay(r.method))
             /\ r.sbr.numDelayFrames = GetDelay(r.method)
             /\ c = "USAC" => r.method # "Inter"
<1> DEFINE r == SetsMethod(m, s, delays, c)
<1>1. CASE c = "USAC" /\ m \notin {"Mute", "Noise"}
  <2> DEFINE d == [delays EXCEPT !.drc = 0, !.dmx = 0]
             t == [s EXCEPT !.numDelayFrames = 0]
  <2>1. r = [ok |-> FALSE, method |-> method, sbr |-> t, delays |-> d]
    BY <1>1 DEF SetsMethod
  <2>2. method # "Inter" /\ GetDelay(method) = 0
    BY <1>1 DEF FramesIInv, GetDelay
  <2> DEFINE none == 0
  <2>3. /\ delays \in [bsDelay : 0..1, drc : 0..1, dmx : 0..1] /\ delays.bsDelay = none
        /\ none \in 0..1
    BY <2>2, DelaysKnown DEF FramesIInv, FramesTypeOK
  <2> HIDE DEF none
  <2>4. [delays EXCEPT !.drc = none, !.dmx = none] = AllDelays(none)
    BY <2>3, DelaysReverted
  <2>5. SoundSbr([s EXCEPT !.numDelayFrames = none]) /\ [s EXCEPT !.numDelayFrames = none].numDelayFrames = none
    BY <2>3, DelaySound
  <2>6. d = AllDelays(0) /\ SoundSbr(t) /\ t.numDelayFrames = 0
    BY <2>4, <2>5 DEF none
  <2> HIDE DEF d, t, r
  <2> QED BY <2>1, <2>2, <2>6 DEF r
<1>2. CASE c # "USAC" /\ m = "Unknown"
  <2> DEFINE g == GetDelay(method)
             d == [delays EXCEPT !.drc = g, !.dmx = g]
             t == [s EXCEPT !.numDelayFrames = g]
  <2>1. r = [ok |-> FALSE, method |-> method, sbr |-> t, delays |-> d]
    BY <1>2 DEF SetsMethod
  <2>2. /\ delays \in [bsDelay : 0..1, drc : 0..1, dmx : 0..1] /\ delays.bsDelay = g
        /\ g \in 0..1
    BY DelaysKnown, DelayTyped DEF FramesIInv, FramesTypeOK
  <2> HIDE DEF g
  <2>3. d = AllDelays(g)
    BY <2>2, DelaysReverted
  <2>4. SoundSbr(t) /\ t.numDelayFrames = g
    BY <2>2, DelaySound
  <2> HIDE DEF d, t, r
  <2> QED BY <1>2, <2>1, <2>3, <2>4 DEF g, r
<1>3. CASE ~(c = "USAC" /\ m \notin {"Mute", "Noise"}) /\ ~(c # "USAC" /\ m = "Unknown")
  <2> DEFINE t == [s EXCEPT !.numDelayFrames = GetDelay(m)]
  <2>1. r = [ok |-> TRUE, method |-> m, sbr |-> t, delays |-> AllDelays(GetDelay(m))]
    BY <1>3 DEF SetsMethod
  <2>2. SoundSbr(t) /\ t.numDelayFrames = GetDelay(m)
    BY DelayTyped, DelaySound
  <2> HIDE DEF t, r
  <2> QED BY <1>3, <2>1, <2>2 DEF r
<1> QED BY <1>1, <1>2, <1>3

-----------------------------------------------------------------------------
\* The histories are counted within their bounds.
CountsTyped ==
  /\ codec \in Codecs /\ chosen \in BOOLEAN /\ started \in BOOLEAN
  /\ call \in {"None", "Interrupted", "Cleared"}
  /\ steady \in 0..2 /\ headers \in 0..2 /\ troubles \in 0..MaxTroubles

LEMMA Together == (CountsTyped /\ DecoderIInv) => FramesIInv
<1> SUFFICES ASSUME CountsTyped, DecoderIInv PROVE FramesIInv
  OBVIOUS
<1>1. delays \in [bsDelay : 0..1, drc : 0..1, dmx : 0..1]
  <2> DEFINE g == GetDelay(method)
  <2>1. delays = AllDelays(g) /\ g \in 0..1
    BY DelayTyped DEF DecoderIInv, DelaysAgree
  <2> HIDE DEF g
  <2> QED BY <2>1 DEF AllDelays
<1>2. FramesTypeOK
  BY <1>1 DEF CountsTyped, DecoderIInv, FramesTypeOK, SoundSbr
<1> QED BY <1>2 DEF DecoderIInv, FramesIInv, HeaderFitsData, Fitting

LEMMA TogetherNext == (CountsTyped' /\ DecoderIInv') => FramesIInv'
BY Together, PTL

LEMMA Apart == ASSUME FramesIInv PROVE CountsTyped /\ DecoderIInv
BY DEF CountsTyped, DecoderIInv, FramesIInv, FramesTypeOK, HeaderFitsData, Fitting

LEMMA HistoryUp == \A n \in 0..2 : Upto(2, n) \in 0..2
BY DEF Upto

LEMMA TroublesCounted ==
  ASSUME CountsTyped, Trouble \/ Clean
  PROVE  troubles' \in 0..MaxTroubles
BY ConstantsOK DEF CountsTyped, Trouble, Clean

LEMMA InitInvariant == FramesInit => FramesIInv
<1> SUFFICES ASSUME FramesInit PROVE FramesIInv
  OBVIOUS
<1>1. /\ method = "Inter" /\ codec = "AAC" /\ chosen = FALSE /\ sbr = NewDecoder(1)
      /\ delays = AllDelays(1) /\ rendered = [mode |-> "Upsampled"] /\ started = FALSE
      /\ call = "None" /\ steady = 0 /\ headers = 0 /\ troubles = 0
  BY DEF FramesInit
<1>2. SoundSbr(sbr) /\ sbr.numDelayFrames = 1
  <2>1. 1 \in 0..1 /\ NewDecoder(1).numDelayFrames = 1
    BY DEF NewDecoder
  <2> QED BY <1>1, <2>1, NewSound
<1>3. rendered \in Rendering /\ Fitting(rendered)
  BY <1>1 DEF Rendering, Fitting
<1>4. DelaysAgree
  BY <1>1, <1>2 DEF DelaysAgree, GetDelay
<1>5. CountsTyped
  <2>1. steady \in 0..2 /\ headers \in 0..2 /\ troubles \in 0..MaxTroubles
    BY <1>1, ConstantsOK
  <2>2. chosen \in BOOLEAN /\ started \in BOOLEAN
    BY <1>1
  <2>3. codec \in Codecs /\ call \in {"None", "Interrupted", "Cleared"}
    BY <1>1, FramesAssumption
  <2> QED BY <2>1, <2>2, <2>3 DEF CountsTyped
<1>6. DecoderIInv
  BY <1>1, <1>2, <1>3, <1>4 DEF DecoderIInv
<1> QED BY <1>5, <1>6, Together

\* Between calls with a flag only the SBR decoder is told.
LEMMA ForcedSound ==
  ASSUME NEW s, SoundSbr(s)
  PROVE  /\ SoundSbr([s EXCEPT !.forceReset = TRUE])
         /\ [s EXCEPT !.forceReset = TRUE].numDelayFrames = s.numDelayFrames
<1> DEFINE t == [s EXCEPT !.forceReset = TRUE]
<1>1. s \in SbrDecoder
  BY DEF SoundSbr
<1>2. /\ t \in SbrDecoder /\ t.header = s.header /\ t.useHeaderSlot = s.useHeaderSlot
      /\ t.data = s.data /\ t.frameErrorFlag = s.frameErrorFlag
      /\ t.numDelayFrames = s.numDelayFrames
  BY <1>1 DEF SbrDecoder
<1> HIDE DEF t
<1>3. HeadersValid(t) /\ DataFit(t)
  BY <1>2 DEF SoundSbr, HeadersValid, DataFit
<1> QED BY <1>2, <1>3 DEF SoundSbr, t

LEMMA FlushingSound ==
  ASSUME NEW s, SoundSbr(s), NEW d \in 0..1
  PROVE  LET t == [s EXCEPT !.numDelayFrames = d, !.flush = TRUE]
         IN  SoundSbr(t) /\ t.numDelayFrames = d
<1> DEFINE yes == TRUE
           t == [s EXCEPT !.numDelayFrames = d, !.flush = yes]
<1>1. s \in SbrDecoder /\ yes \in BOOLEAN
  BY DEF SoundSbr
<1> HIDE DEF yes
<1>2. /\ t \in SbrDecoder /\ t.header = s.header /\ t.useHeaderSlot = s.useHeaderSlot
      /\ t.data = s.data /\ t.frameErrorFlag = s.frameErrorFlag
      /\ t.numDelayFrames = d
  BY <1>1 DEF SbrDecoder
<1> HIDE DEF t
<1>3. HeadersValid(t) /\ DataFit(t)
  BY <1>2 DEF SoundSbr, HeadersValid, DataFit
<1>4. SoundSbr(t) /\ t.numDelayFrames = d
  BY <1>2, <1>3 DEF SoundSbr
<1> QED BY <1>4 DEF t, yes

LEMMA ConfigureKeeps ==
  ASSUME FramesIInv, NEW c \in Codecs, Configure(c)
  PROVE  FramesIInv'
<1> DEFINE new == NewDecoder(sbr.numDelayFrames)
           r == IF RevertsInter(c) THEN SetsMethod("Noise", new, delays, c)
                ELSE [method |-> method, sbr |-> new, delays |-> delays]
<1>1. CountsTyped /\ DecoderIInv
  BY Apart
<1>2. /\ codec' = c /\ method' = r.method /\ sbr' = r.sbr /\ delays' = r.delays
      /\ rendered' = [mode |-> "Upsampled"] /\ started' = FALSE /\ steady' = 0
      /\ headers' = 0 /\ Trouble /\ UNCHANGED <<chosen, call>>
  BY DEF Configure
<1>3. SoundSbr(new) /\ new.numDelayFrames = sbr.numDelayFrames
  <2>1. sbr.numDelayFrames \in 0..1
    BY DelaysKnown
  <2> QED BY <2>1, NewSound DEF NewDecoder
<1> HIDE DEF new
<1>4. /\ SoundSbr(r.sbr) /\ r.delays = AllDelays(GetDelay(r.method))
      /\ r.sbr.numDelayFrames = GetDelay(r.method)
      /\ (c = "USAC" => r.method # "Inter")
  <2>1. CASE RevertsInter(c)
    <3>1. r = SetsMethod("Noise", new, delays, c)
      BY <2>1
    <3> HIDE DEF r
    <3> QED BY <1>3, <3>1, SetsMethodSound
  <2>2. CASE ~RevertsInter(c)
    <3>1. r = [method |-> method, sbr |-> new, delays |-> delays]
      BY <2>2
    <3> HIDE DEF r
    <3>2. c = "USAC" => method # "Inter"
      BY <2>2 DEF RevertsInter, GetDelay
    <3> QED BY <1>3, <3>1, <3>2 DEF FramesIInv, DelaysAgree
  <2> QED BY <2>1, <2>2
<1> HIDE DEF r
<1>5. CountsTyped'
  <2>1. steady' \in 0..2 /\ headers' \in 0..2 /\ started' \in BOOLEAN
    <3>1. steady' = 0 /\ headers' = 0 /\ started' = FALSE
      BY <1>2
    <3> HIDE <1>2
    <3>2. steady' \in 0..2 /\ headers' \in 0..2
      BY <3>1
    <3>3. started' \in BOOLEAN
      BY <3>1
    <3> QED BY <3>2, <3>3
  <2>2. troubles' \in 0..MaxTroubles
    BY <1>1, <1>2, TroublesCounted
  <2>3. codec' \in Codecs /\ chosen' \in BOOLEAN /\ call' \in {"None", "Interrupted", "Cleared"}
    BY <1>1, <1>2 DEF CountsTyped
  <2> QED BY <2>1, <2>2, <2>3 DEF CountsTyped
<1>6. DecoderIInv'
  BY <1>2, <1>4 DEF DecoderIInv, DelaysAgree, Rendering, Fitting
<1> QED BY <1>5, <1>6, TogetherNext

LEMMA SetConcealMethodKeeps ==
  ASSUME FramesIInv, NEW m, SetConcealMethod(m)
  PROVE  FramesIInv'
<1> DEFINE r == SetsMethod(m, sbr, delays, codec)
<1>1. CountsTyped /\ DecoderIInv
  BY Apart
<1>2. /\ method' = r.method /\ sbr' = r.sbr /\ delays' = r.delays
      /\ UNCHANGED <<codec, rendered, started, call>>
  BY DEF SetConcealMethod
<1>3. /\ SoundSbr(r.sbr) /\ r.delays = AllDelays(GetDelay(r.method))
      /\ r.sbr.numDelayFrames = GetDelay(r.method)
      /\ (codec = "USAC" => r.method # "Inter")
  <2>1. SoundSbr(sbr) /\ codec \in Codecs
    BY <1>1 DEF CountsTyped, DecoderIInv
  <2> QED BY <2>1, SetsMethodSound
<1>4. r.ok \in BOOLEAN
  BY DEF SetsMethod
<1>5. chosen' \in BOOLEAN
  <2>1. chosen' = (chosen \/ r.ok)
    BY DEF SetConcealMethod
  <2> QED BY <2>1
<1>6. steady' \in 0..2 /\ headers' \in 0..2 /\ Trouble
  <2>1. /\ steady' = IF r.method = method THEN steady ELSE 0
        /\ headers' = IF r.method = method THEN headers ELSE 0
        /\ Trouble
    BY DEF SetConcealMethod
  <2> HIDE DEF r
  <2> QED BY <1>1, <2>1 DEF CountsTyped
<1> HIDE DEF r
<1>7. CountsTyped'
  BY <1>1, <1>2, <1>5, <1>6, TroublesCounted DEF CountsTyped
<1>8. DecoderIInv'
  BY <1>1, <1>2, <1>3 DEF DecoderIInv, DelaysAgree
<1> QED BY <1>7, <1>8, TogetherNext

LEMMA BeginKeeps ==
  ASSUME FramesIInv, Begin
  PROVE  FramesIInv'
<1>1. CountsTyped /\ DecoderIInv
  BY Apart
<1>2. /\ call' \in {"Interrupted", "Cleared"} /\ Trouble
      /\ UNCHANGED <<codec, rendered, delays, chosen, started>>
      /\ sbr' = Interrupted(sbr) \/ sbr' = [sbr EXCEPT !.forceReset = TRUE]
  BY DEF Begin
<1>3. method' = method /\ steady' \in 0..2 /\ headers' \in 0..2
  <2>1. CASE call' = "Cleared"
    BY <1>1, <2>1 DEF Begin, ClearHistory, CountsTyped
  <2>2. CASE call' # "Cleared"
    BY <1>1, <2>2 DEF Begin, vars, CountsTyped
  <2> QED BY <2>1, <2>2
<1>4. SoundSbr(sbr') /\ sbr'.numDelayFrames = sbr.numDelayFrames
  <2>1. SoundSbr(sbr)
    BY <1>1 DEF DecoderIInv
  <2> QED BY <1>2, <2>1, InterruptedSound, ForcedSound
<1>5. CountsTyped'
  BY <1>1, <1>2, <1>3, TroublesCounted DEF CountsTyped
<1>6. DecoderIInv'
  BY <1>1, <1>2, <1>3, <1>4 DEF DecoderIInv, DelaysAgree
<1> QED BY <1>5, <1>6, TogetherNext

LEMMA DecodeGoodKeeps ==
  ASSUME FramesIInv, NEW p \in Payload \cup {NoPayload}, DecodeGood(p)
  PROVE  FramesIInv'
<1>1. CountsTyped /\ DecoderIInv /\ SoundSbr(sbr)
  BY Apart DEF DecoderIInv
<1>2. SoundSbr(Parsed2(p)) /\ Parsed2(p).numDelayFrames = sbr.numDelayFrames
  BY <1>1, Parsed2Sound
<1>3. /\ ApplySbr(Parsed2(p), TRUE) /\ call' = "None" /\ started' = TRUE
      /\ UNCHANGED <<method, codec, delays, chosen>> /\ (Trouble \/ Clean)
  BY DEF DecodeGood, Ended
<1>4. steady' \in 0..2 /\ headers' \in 0..2
  <2>1. /\ steady' = 0 \/ steady' = Upto(2, steady)
        /\ headers' = 0 \/ headers' = Upto(2, headers)
    BY DEF DecodeGood
  <2> QED BY <1>1, <2>1, HistoryUp DEF CountsTyped
<1>5. CountsTyped'
  BY <1>1, <1>3, <1>4, TroublesCounted DEF CountsTyped
<1>6. DecoderIInv'
  BY <1>2, <1>3, AppliedKeeps
<1> QED BY <1>5, <1>6, TogetherNext

LEMMA DecodeBadKeeps ==
  ASSUME FramesIInv, NEW p \in Payload \cup {NoPayload}, DecodeBad(p)
  PROVE  FramesIInv'
<1>1. CountsTyped /\ DecoderIInv /\ SoundSbr(sbr)
  BY Apart DEF DecoderIInv
<1>2. SoundSbr(Parsed2(p)) /\ Parsed2(p).numDelayFrames = sbr.numDelayFrames
  BY <1>1, Parsed2Sound
<1>3. /\ ApplySbr(Parsed2(p), FALSE) /\ call' = "None" /\ headers' = 0
      /\ UNCHANGED <<method, codec, delays, chosen>> /\ Trouble /\ UNCHANGED started
  BY DEF DecodeBad, Ended
<1>4. steady' \in 0..2
  <2>1. steady' = 0 \/ steady' = Upto(2, steady)
    BY DEF DecodeBad
  <2> QED BY <1>1, <2>1, HistoryUp DEF CountsTyped
<1>5. CountsTyped'
  BY <1>1, <1>3, <1>4, TroublesCounted DEF CountsTyped
<1>6. DecoderIInv'
  BY <1>2, <1>3, AppliedKeeps
<1> QED BY <1>5, <1>6, TogetherNext

LEMMA ConcealKeeps ==
  ASSUME FramesIInv, Conceal
  PROVE  FramesIInv'
<1>1. CountsTyped /\ DecoderIInv /\ SoundSbr(sbr)
  BY Apart DEF DecoderIInv
<1>2. SoundSbr(AgedData(sbr)) /\ AgedData(sbr).numDelayFrames = sbr.numDelayFrames
  BY <1>1, AgedSound
<1>3. /\ ApplySbr(AgedData(sbr), FALSE) /\ call' = "None" /\ steady' = 0 /\ headers' = 0
      /\ UNCHANGED <<method, codec, delays, chosen>> /\ Trouble /\ UNCHANGED started
  BY DEF Conceal, Ended
<1>4. CountsTyped'
  BY <1>1, <1>3, TroublesCounted DEF CountsTyped
<1>5. DecoderIInv'
  BY <1>2, <1>3, AppliedKeeps
<1> QED BY <1>4, <1>5, TogetherNext

LEMMA FlushFrameKeeps ==
  ASSUME FramesIInv, FlushFrame
  PROVE  FramesIInv'
<1> DEFINE t == [AgedData(sbr) EXCEPT !.numDelayFrames = delays.bsDelay, !.flush = TRUE]
           r == Apply(t, Shown)
<1>1. CountsTyped /\ DecoderIInv /\ SoundSbr(sbr)
  BY Apart DEF DecoderIInv
<1>2. /\ sbr' = Interrupted(r.sbr) /\ rendered' = r.rendered
      /\ steady' = Upto(2, steady) /\ headers' = 0 /\ call' = "None"
      /\ UNCHANGED <<method, codec, delays, chosen>> /\ Trouble /\ UNCHANGED started
  BY DEF FlushFrame, Ended
<1>3. SoundSbr(t) /\ t.numDelayFrames = sbr.numDelayFrames
  <2>1. SoundSbr(AgedData(sbr))
    BY <1>1, AgedSound
  <2> QED BY <2>1, DelaysKnown, FlushingSound
<1> HIDE DEF t
<1>4. Shown \in BOOLEAN
  BY DEF Shown
<1>5. /\ SoundSbr(r.sbr) /\ r.sbr.numDelayFrames = sbr.numDelayFrames
      /\ r.rendered \in Rendering /\ Fitting(r.rendered)
  BY <1>3, <1>4, ApplySbrSound
<1> HIDE DEF r
<1>6. SoundSbr(sbr') /\ sbr'.numDelayFrames = sbr.numDelayFrames
  BY <1>2, <1>5, InterruptedSound
<1>7. CountsTyped'
  BY <1>1, <1>2, HistoryUp, TroublesCounted DEF CountsTyped
<1>8. DecoderIInv'
  BY <1>1, <1>2, <1>5, <1>6 DEF DecoderIInv, DelaysAgree
<1> QED BY <1>7, <1>8, TogetherNext

LEMMA StutterKeeps ==
  ASSUME FramesIInv, NoOutput \/ UNCHANGED frameVars
  PROVE  FramesIInv'
<1>1. CountsTyped /\ DecoderIInv
  BY Apart
<1>2. /\ call' = "None" \/ call' = call
      /\ UNCHANGED <<method, codec, sbr, rendered, delays, chosen, started, steady, headers,
                     troubles>>
  BY DEF NoOutput, frameVars, vars
<1>3. CountsTyped'
  BY <1>1, <1>2 DEF CountsTyped
<1>4. DecoderIInv'
  BY <1>1, <1>2 DEF DecoderIInv, DelaysAgree
<1> QED BY <1>3, <1>4, TogetherNext

LEMMA NextKeepsInvariant == (FramesIInv /\ [FramesNext]_frameVars) => FramesIInv'
<1> SUFFICES ASSUME FramesIInv, [FramesNext]_frameVars PROVE FramesIInv'
  OBVIOUS
<1>1. CASE \E c \in Codecs : Configure(c)
  BY <1>1, ConfigureKeeps
<1>2. CASE \E m \in ConcealMethodUser : SetConcealMethod(m)
  BY <1>2, SetConcealMethodKeeps
<1>3. CASE Begin
  BY <1>3, BeginKeeps
<1>4. CASE \E p \in Payload \cup {NoPayload} : DecodeGood(p) \/ DecodeBad(p)
  BY <1>4, DecodeGoodKeeps, DecodeBadKeeps
<1>5. CASE Conceal
  BY <1>5, ConcealKeeps
<1>6. CASE FlushFrame
  BY <1>6, FlushFrameKeeps
<1>7. CASE NoOutput \/ UNCHANGED frameVars
  BY <1>7, StutterKeeps
<1> QED BY <1>1, <1>2, <1>3, <1>4, <1>5, <1>6, <1>7 DEF FramesNext

-----------------------------------------------------------------------------
THEOREM InvariantHolds == FramesSpec => []FramesIInv
BY InitInvariant, NextKeepsInvariant, PTL DEF FramesSpec

\* The decoder of a stream with SBR stays within its types.
THEOREM FramesTypeCorrect == FramesSpec => []FramesTypeOK
<1>1. FramesIInv => FramesTypeOK
  BY DEF FramesIInv
<1> QED BY <1>1, InvariantHolds, PTL

\* Whatever setConcealMethod is asked for and whenever it gives up, all modules have
\* the delay of the concealment method in use.
THEOREM DelaysStayTogether == FramesSpec => []DelaysAgree
<1>1. FramesIInv => DelaysAgree
  BY DEF FramesIInv
<1> QED BY <1>1, InvariantHolds, PTL

\* sbrDecoder_Apply never renders data with another header than the one they were
\* parsed with, whichever headers, errors, interruptions and flushes came between.
THEOREM HeadersFit == FramesSpec => []HeaderFitsData
<1>1. FramesIInv => HeaderFitsData
  BY DEF FramesIInv
<1> QED BY <1>1, InvariantHolds, PTL

-----------------------------------------------------------------------------
\* What a slot was parsed with can be decoded: this is what the frames of a stream
\* hand on from call to call.
Carried(s, k) == ~s.frameErrorFlag[k] /\ Synced(s.header[s.useHeaderSlot[k]])
Other(s) == 1 - s.useFrameSlot

\* A call later.
LaterAge(a) == IF a < OldestData THEN a + 1 ELSE a

\* Two decoders of the same frames, but for the ages of their data.
SameFrames(s, t) ==
  /\ t.header = s.header /\ t.useHeaderSlot = s.useHeaderSlot
  /\ t.frameErrorFlag = s.frameErrorFlag /\ t.useFrameSlot = s.useFrameSlot
  /\ t.numDelayFrames = s.numDelayFrames /\ t.numFlushedFrames = s.numFlushedFrames
  /\ t.flush = s.flush /\ t.forceReset = s.forceReset

LEMMA SlotIsBit == Slot = {0, 1}
BY DEF Slot

LEMMA OthersSlot == ASSUME NEW s \in SbrDecoder PROVE Other(s) \in Slot
BY Fields, SlotIsBit DEF Other

LEMMA AgesData ==
  ASSUME NEW s, SoundSbr(s)
  PROVE  /\ SameFrames(s, AgedData(s))
         /\ \A k \in Slot : AgedData(s).data[k].age = LaterAge(s.data[k].age)
<1> DEFINE aged == [k \in Slot |-> [s.data[k] EXCEPT !.age = IF @ < OldestData THEN @ + 1 ELSE @]]
           t == AgedData(s)
<1>1. s \in SbrDecoder /\ s.data \in [Slot -> FrameData]
  BY Fields DEF SoundSbr
<1>2. \A k \in Slot : aged[k].age = LaterAge(s.data[k].age)
  <2> TAKE k \in Slot
  <2> DEFINE d == s.data[k]
             a == LaterAge(d.age)
  <2>1. d \in FrameData
    BY <1>1
  <2>2. aged[k] = [d EXCEPT !.age = a]
    BY DEF LaterAge
  <2> HIDE DEF a, d, aged
  <2>3. [d EXCEPT !.age = a].age = a
    BY <2>1 DEF FrameData
  <2> QED BY <2>2, <2>3 DEF a, d
<1>3. t = [s EXCEPT !.data = aged]
  BY DEF AgedData
<1> HIDE DEF aged, t
<1>4. SameFrames(s, t) /\ t.data = aged
  BY <1>1, <1>3 DEF SbrDecoder, SameFrames
<1> QED BY <1>2, <1>4 DEF t

\* A header with settings is in sync when it has been read.
LEMMA ReadsHeader ==
  ASSUME NEW h, Valid(h), NEW set \in Settings
  PROVE  /\ Synced(ReadHeader(h, set).header)
         /\ ReadHeader(h, set).status \in {"Ok", "Reset"}
<1> DEFINE taken == [h EXCEPT !.settings = set]
           new == [taken EXCEPT !.syncState = "Header", !.reset = TRUE]
           fresh == ~Synced(h) \/ h.settings # set
           r == ReadHeader(h, set)
<1>1. set # "None" /\ set # "Invalid"
  BY SettingsAssumption
<1>2. CASE ~fresh
  <2>1. r = Parsing(h, "Ok")
    BY <1>1, <1>2 DEF ReadHeader
  <2> QED BY <1>2, <2>1 DEF Parsing
<1>3. CASE fresh
  <2>1. r = Parsing(new, "Reset")
    BY <1>1, <1>3 DEF ReadHeader
  <2>2. new.syncState = "Header"
    BY DEF Valid, SbrHeader
  <2> HIDE DEF new
  <2> QED BY <2>1, <2>2 DEF Parsing, Synced
<1> QED BY <1>2, <1>3

LEMMA ContinuesValid ==
  ASSUME NEW s, SoundSbr(s)
  PROVE  Valid(ContinuedHeader(s).header)
<1> DEFINE this == HeaderSlot(s, s.useFrameSlot)
           updated == [s.header[this] EXCEPT !.update = FALSE]
<1>1. s \in SbrDecoder /\ this \in Slot /\ Last(s) \in Slot
  BY Fields, HeaderSlotIsOwn, LastTyped DEF SoundSbr
<1>2. Valid(s.header[this]) /\ Valid(s.header[Last(s)])
  BY <1>1, SoundHeaders
<1>3. CASE s.header[this].update
  <2>1. ContinuedHeader(s) = Parsing(updated, "Ok")
    BY <1>3 DEF ContinuedHeader
  <2>2. Valid(updated)
    <3> HIDE DEF this
    <3> QED BY <1>2 DEF Valid, SbrHeader, Synced
  <2> HIDE DEF updated
  <2> QED BY <2>1, <2>2 DEF Parsing
<1>4. CASE ~s.header[this].update
  <2>1. ContinuedHeader(s) = Parsing(s.header[Last(s)], "NotPresent")
    BY <1>4 DEF ContinuedHeader
  <2> QED BY <1>2, <2>1 DEF Parsing
<1> QED BY <1>3, <1>4

\* What becomes of a slot that is parsed: its data are new, or cannot be decoded, and
\* they can be after a frame with a header of its own.  The other slot is left alone.
LEMMA ParseCarries ==
  ASSUME NEW s, SoundSbr(s), NEW p \in Payload
  PROVE  LET t == Parse(s, p)
             u == s.useFrameSlot
         IN  /\ t.useFrameSlot = (u + 1) % (s.numDelayFrames + 1)
             /\ t.flush = s.flush /\ t.forceReset = s.forceReset
             /\ \A k \in Slot \ {u} : (Carried(t, k) <=> Carried(s, k)) /\ t.data[k] = s.data[k]
             /\ Carried(t, u) => t.data[u].age = 0
             /\ HasHeader(p) => Carried(t, u)
<1> DEFINE use == s.useFrameSlot
           this == HeaderSlot(s, use)
           read == ParsedHeader(s, p)
           data == ReadsData(read.header, read.status)
           fine == read.status # "Error" /\ (data => p.data = "Ok")
           crc == data /\ p.data = "Crc"
           end == Checked(read.header, read.status, crc)
           old == \/ end.status \in {"NotPresent", "Error"}
                  \/ end.status = "Reset" /\ ~fine
                  \/ this # Last(s) /\ end.header = s.header[Last(s)]
           new == IF data /\ fine THEN [age |-> 0, settings |-> read.header.settings]
                                  ELSE s.data[use]
           own == HeaderOf(s, old)
           t == [s EXCEPT !.header[this] = end.header, !.frameErrorFlag[use] = ~fine,
                          !.data[use] = new, !.useHeaderSlot[use] = own]
<1>1. /\ s \in SbrDecoder /\ use \in Slot /\ this \in Slot /\ Last(s) \in Slot
      /\ s.header \in [Slot -> SbrHeader] /\ s.data \in [Slot -> FrameData]
      /\ s.useHeaderSlot \in [Slot -> Slot] /\ s.frameErrorFlag \in [Slot -> BOOLEAN]
      /\ \A j \in Slot \ {use} : s.useHeaderSlot[j] # this
  BY Fields, HeaderSlotIsOwn, LastTyped DEF SoundSbr
<1>2. Parse(s, p) = Advance(t)
  BY DEF Parse
<1>3. /\ Valid(read.header)
      /\ read.status = "NotPresent" => read.header = s.header[Last(s)]
  BY ParsedHeaderValid
<1>4. data <=> Synced(read.header) /\ read.status # "Error"
  BY DEF ReadsData
<1>5. ~crc => end.header = read.header /\ end.status = read.status
  BY DEF Checked, Parsing
<1>6. fine => ~crc
  OBVIOUS
<1>7. own = IF old THEN Last(s) ELSE this
  BY DEF HeaderOf
<1>8. HasHeader(p) => /\ Synced(read.header) /\ read.status \in {"Ok", "Reset"}
                      /\ p.data = "Ok"
  <2> SUFFICES ASSUME HasHeader(p)
               PROVE  /\ Synced(read.header) /\ read.status \in {"Ok", "Reset"}
                      /\ p.data = "Ok"
    OBVIOUS
  <2> DEFINE after == ReadHeader(ContinuedHeader(s).header, p.header)
  <2>1. p.header \in Settings /\ p.data = "Ok"
    BY DEF HasHeader
  <2>2. Synced(after.header) /\ after.status \in {"Ok", "Reset"}
    BY <2>1, ContinuesValid, ReadsHeader
  <2>3. read = after
    BY <2>2 DEF ParsedHeader
  <2> QED BY <2>1, <2>2, <2>3
<1> HIDE DEF read, end
\* The header a frame without an error goes with is the one it was read with.
<1>9. fine => [s.header EXCEPT ![this] = end.header][own] = read.header
  <2> SUFFICES ASSUME fine PROVE [s.header EXCEPT ![this] = end.header][own] = read.header
    OBVIOUS
  <2>1. end.header = read.header /\ end.status = read.status /\ read.status # "Error"
    BY <1>5, <1>6
  <2>2. CASE old
    <3>1. own = Last(s)
      BY <1>7, <2>2
    <3>2. CASE Last(s) = this
      BY <1>1, <2>1, <3>1, <3>2
    <3>3. CASE Last(s) # this
      <4>1. [s.header EXCEPT ![this] = end.header][own] = s.header[Last(s)]
        BY <1>1, <3>1, <3>3
      <4>2. end.status = "NotPresent" \/ end.header = s.header[Last(s)]
        BY <2>1, <2>2
      <4> QED BY <1>3, <2>1, <4>1, <4>2
    <3> QED BY <3>2, <3>3
  <2>3. CASE ~old
    BY <1>1, <1>7, <2>1, <2>3
  <2> QED BY <2>2, <2>3
<1>10. (data /\ fine) => new.age = 0
  OBVIOUS
<1>11. HasHeader(p) => data /\ fine
  BY <1>4, <1>8
<1>12. own \in Slot /\ end.header \in SbrHeader /\ new \in FrameData
  <2>1. own \in Slot
    BY <1>1, <1>7
  <2>2. end.header \in SbrHeader
    <3>1. CASE crc /\ read.status # "NotPresent"
      <4> DEFINE broken == [read.header EXCEPT !.syncState = "NotInitialized"]
      <4>1. end = Parsing(broken, "Error")
        BY <3>1 DEF Checked, end
      <4>2. broken \in SbrHeader
        BY <1>3 DEF Valid, SbrHeader, SyncState
      <4> HIDE DEF broken
      <4> QED BY <4>1, <4>2 DEF Parsing
    <3>2. CASE ~(crc /\ read.status # "NotPresent")
      <4>1. end = Parsing(read.header, read.status)
        BY <3>2 DEF Checked, end
      <4> QED BY <1>3, <4>1 DEF Parsing, Valid
    <3> QED BY <3>1, <3>2
  <2>3. new \in FrameData
    <3>1. CASE data /\ fine
      <4> DEFINE zero == 0
      <4>1. read.header.settings \in Settings /\ zero \in 0..OldestData
        BY <1>3, <1>4, <3>1, ConstantsOK DEF Valid
      <4> HIDE DEF zero
      <4>2. [age |-> zero, settings |-> read.header.settings] \in FrameData
        BY <4>1 DEF FrameData
      <4> QED BY <3>1, <4>2 DEF zero
    <3>2. CASE ~(data /\ fine)
      BY <1>1, <3>2
    <3> QED BY <3>1, <3>2
  <2> QED BY <2>1, <2>2, <2>3
<1> DEFINE flag == ~fine
<1>13. flag \in BOOLEAN
  OBVIOUS
<1>14. ~flag <=> fine
  OBVIOUS
<1>15. ~flag => ([s.header EXCEPT ![this] = end.header][own] = read.header
                 /\ (Synced(read.header) => new.age = 0))
  BY <1>4, <1>9, <1>10
<1>16. HasHeader(p) => ~flag /\ Synced(read.header)
  BY <1>8, <1>11
<1> HIDE DEF new, own, flag, this, use
<1> DEFINE u == [s EXCEPT !.header[this] = end.header, !.frameErrorFlag[use] = flag,
                          !.data[use] = new, !.useHeaderSlot[use] = own]
<1>17. /\ u \in SbrDecoder
       /\ u.header = [s.header EXCEPT ![this] = end.header]
       /\ u.frameErrorFlag = [s.frameErrorFlag EXCEPT ![use] = flag]
       /\ u.data = [s.data EXCEPT ![use] = new]
       /\ u.useHeaderSlot = [s.useHeaderSlot EXCEPT ![use] = own]
       /\ u.numDelayFrames = s.numDelayFrames /\ u.useFrameSlot = s.useFrameSlot
       /\ u.flush = s.flush /\ u.forceReset = s.forceReset
  BY <1>1, <1>12, <1>13 DEF SbrDecoder
<1>18. t = u
  BY DEF flag, use, this, new, own
<1> HIDE DEF t, u
<1> DEFINE n == (u.useFrameSlot + 1) % (u.numDelayFrames + 1)
           a == [u EXCEPT !.useFrameSlot = n]
<1>19. Parse(s, p) = a
  BY <1>2, <1>18 DEF Advance
<1> HIDE DEF n
<1>20. /\ a.header = u.header /\ a.useHeaderSlot = u.useHeaderSlot /\ a.data = u.data
       /\ a.frameErrorFlag = u.frameErrorFlag /\ a.flush = u.flush
       /\ a.forceReset = u.forceReset /\ a.useFrameSlot = n
  BY <1>17 DEF SbrDecoder
<1> HIDE DEF a
<1>21. a.useFrameSlot = (use + 1) % (s.numDelayFrames + 1)
  BY <1>17, <1>20 DEF n, use
<1>22. \A k \in Slot \ {use} : (Carried(a, k) <=> Carried(s, k)) /\ a.data[k] = s.data[k]
  <2> TAKE k \in Slot \ {use}
  <2>1. /\ a.useHeaderSlot[k] = s.useHeaderSlot[k] /\ a.data[k] = s.data[k]
        /\ a.frameErrorFlag[k] = s.frameErrorFlag[k]
    BY <1>1, <1>17, <1>20
  <2>2. a.header[s.useHeaderSlot[k]] = s.header[s.useHeaderSlot[k]]
    BY <1>1, <1>17, <1>20
  <2> QED BY <2>1, <2>2 DEF Carried
<1>23. /\ a.useHeaderSlot[use] = own /\ a.data[use] = new /\ a.frameErrorFlag[use] = flag
       /\ a.header[own] = [s.header EXCEPT ![this] = end.header][own]
  BY <1>1, <1>12, <1>17, <1>20
<1>24. Carried(a, use) => a.data[use].age = 0
  BY <1>15, <1>23 DEF Carried
<1>25. HasHeader(p) => Carried(a, use)
  BY <1>15, <1>16, <1>23 DEF Carried
<1>26. a.flush = s.flush /\ a.forceReset = s.forceReset
  BY <1>17, <1>20
<1> QED BY <1>19, <1>21, <1>22, <1>24, <1>25, <1>26 DEF use

-----------------------------------------------------------------------------
\* Rendering leaves a header in sync, and one in sync whose frame can be decoded is
\* active after it.
LEMMA RendersHeader ==
  ASSUME NEW h, Valid(h), NEW flag \in BOOLEAN
  PROVE  LET g == Decodes(Resets([h EXCEPT !.frameErrorFlag = flag]))
         IN  /\ Synced(g) <=> Synced(h)
             /\ (g.syncState = "Active" /\ ~g.frameErrorFlag) <=> (Synced(h) /\ ~flag)
<1> DEFINE f == [h EXCEPT !.frameErrorFlag = flag]
           r == Resets(f)
           g == Decodes(r)
<1>1. /\ f \in SbrHeader /\ f.syncState = h.syncState /\ f.frameErrorFlag = flag
  BY DEF Valid, SbrHeader
<1>2. h.syncState \in SyncState
  BY DEF Valid, SbrHeader
<1> HIDE DEF f
<1>3. CASE f.syncState = "NotInitialized"
  <2> DEFINE d == [DefaultHeader EXCEPT !.syncState = "Upsampling", !.reset = TRUE]
  <2>1. r = d
    BY <1>3 DEF Resets
  <2>2. d.syncState = "Upsampling"
    BY DEF DefaultHeader
  <2> HIDE DEF d, r
  <2>3. g = r
    BY <2>1, <2>2 DEF Decodes
  <2> HIDE DEF g
  <2>4. ~Synced(g) /\ ~Synced(h) /\ g.syncState # "Active"
    BY <1>1, <1>3, <2>1, <2>2, <2>3 DEF Synced
  <2> QED BY <2>4 DEF g, r, f
<1>4. CASE f.syncState # "NotInitialized"
  <2> DEFINE b == f.reset /\ ~ (f.syncState = "Active" \/
                                (f.syncState = "Header" /\ ~f.frameErrorFlag))
             d == [f EXCEPT !.reset = b]
  <2>1. r = d
    BY <1>4 DEF Resets
  <2>2. b \in BOOLEAN
    OBVIOUS
  <2> HIDE DEF b
  <2>3. /\ d \in SbrHeader /\ d.syncState = f.syncState /\ d.frameErrorFlag = f.frameErrorFlag
    BY <1>1, <2>2 DEF SbrHeader
  <2> HIDE DEF d, r
  <2>4. r \in SbrHeader /\ r.syncState = h.syncState /\ r.frameErrorFlag = flag
    BY <1>1, <2>1, <2>3
  <2>5. CASE r.syncState = "Header" /\ ~r.frameErrorFlag
    <3> DEFINE e == [r EXCEPT !.syncState = "Active"]
    <3>1. g = e
      BY <2>5 DEF Decodes
    <3>2. e.syncState = "Active" /\ e.frameErrorFlag = r.frameErrorFlag
      BY <2>4 DEF SbrHeader
    <3> HIDE DEF e, g
    <3>3. Synced(g) /\ Synced(h) /\ g.syncState = "Active" /\ ~g.frameErrorFlag /\ ~flag
      BY <2>4, <2>5, <3>1, <3>2 DEF Synced
    <3> QED BY <3>3 DEF g, r, f
  <2>6. CASE ~(r.syncState = "Header" /\ ~r.frameErrorFlag)
    <3>1. g = r
      BY <2>6 DEF Decodes
    <3> HIDE DEF g
    <3>2. /\ Synced(g) <=> Synced(h)
          /\ (g.syncState = "Active" /\ ~g.frameErrorFlag) <=> (Synced(h) /\ ~flag)
      BY <2>4, <2>6, <3>1 DEF Synced
    <3> QED BY <3>2 DEF g, r, f
  <2> QED BY <2>5, <2>6
<1> QED BY <1>3, <1>4

\* What sbrDecoder_Apply renders is the slot it stops at.
Prepared(s, ok) ==
  LET counted == [s EXCEPT !.numFlushedFrames = IF s.flush THEN IF @ < 2 THEN @ + 1 ELSE @ ELSE 0]
  IN  Flushed(IF ok THEN counted ELSE Failed(counted))

LEMMA PreparedSound ==
  ASSUME NEW s, SoundSbr(s), NEW ok \in BOOLEAN
  PROVE  SoundSbr(Prepared(s, ok))
<1> DEFINE n == IF s.flush THEN IF s.numFlushedFrames < 2 THEN s.numFlushedFrames + 1
                                ELSE s.numFlushedFrames
                ELSE 0
           counted == [s EXCEPT !.numFlushedFrames = n]
<1>1. n \in 0..2
  <2>1. s.numFlushedFrames \in 0..2
    BY Fields DEF SoundSbr
  <2> QED BY <2>1
<1>2. Prepared(s, ok) = Flushed(IF ok THEN counted ELSE Failed(counted))
  BY DEF Prepared
<1> HIDE DEF n
<1>3. SoundSbr(counted)
  BY <1>1, CountedSound
<1> HIDE DEF counted
<1> QED BY <1>2, <1>3, FailedSound, FlushedSound

LEMMA AppliesSlot ==
  ASSUME NEW s, SoundSbr(s), NEW ok \in BOOLEAN
  PROVE  LET t == Prepared(s, ok)
             r == Apply(s, ok)
         IN  /\ r.sbr.useFrameSlot = t.useFrameSlot /\ r.sbr.data = t.data
             /\ ~r.sbr.flush /\ ~r.sbr.forceReset
             /\ \A k \in Slot : Carried(r.sbr, k) <=> Carried(t, k)
             /\ r.rendered.mode = "Decoded" <=> Carried(t, t.useFrameSlot)
             /\ r.rendered.mode = "Decoded" => r.rendered.age = t.data[t.useFrameSlot].age
<1> DEFINE t == Prepared(s, ok)
           slot == t.useHeaderSlot[t.useFrameSlot]
           flag == t.frameErrorFlag[t.useFrameSlot]
           h == Decodes(Resets([t.header[slot] EXCEPT !.frameErrorFlag = flag]))
           d == t.data[t.useFrameSlot]
           no == FALSE
           u == [t EXCEPT !.header[slot] = h, !.forceReset = no, !.flush = no]
<1>2. Apply(s, ok) = [sbr |-> u, rendered |-> Rendered(h, d)]
  BY DEF Apply, Prepared
<1>3. SoundSbr(t)
  BY PreparedSound
<1> HIDE DEF t
<1>4. /\ t \in SbrDecoder /\ t.useFrameSlot \in Slot /\ slot \in Slot /\ flag \in BOOLEAN
      /\ t.header \in [Slot -> SbrHeader]
      /\ t.useHeaderSlot \in [Slot -> Slot] /\ Valid(t.header[slot])
  BY <1>3, Fields, SoundHeaders DEF SoundSbr
<1>5. /\ Valid(h)
      /\ Synced(h) <=> Synced(t.header[slot])
      /\ (h.syncState = "Active" /\ ~h.frameErrorFlag) <=> (Synced(t.header[slot]) /\ ~flag)
  BY <1>4, RenderedHeader, RendersHeader
<1> HIDE DEF h, d
<1>6. /\ Rendered(h, d).mode = "Decoded" <=> (h.syncState = "Active" /\ ~h.frameErrorFlag)
      /\ Rendered(h, d).mode = "Decoded" => Rendered(h, d).age = d.age
  <2>1. CASE h.syncState # "Active"
    <3>1. Rendered(h, d).mode = "Upsampled"
      BY <2>1 DEF Rendered
    <3> QED BY <2>1, <3>1
  <2>2. CASE h.syncState = "Active" /\ h.frameErrorFlag
    <3>1. Rendered(h, d).mode = "Concealed"
      BY <2>2 DEF Rendered
    <3> QED BY <2>2, <3>1
  <2>3. CASE h.syncState = "Active" /\ ~h.frameErrorFlag
    <3>1. Rendered(h, d).mode = "Decoded" /\ Rendered(h, d).age = d.age
      BY <2>3 DEF Rendered
    <3> QED BY <2>3, <3>1
  <2> QED BY <2>1, <2>2, <2>3
<1>7. Rendered(h, d).mode = "Decoded" <=> Carried(t, t.useFrameSlot)
  BY <1>5, <1>6 DEF Carried
<1> HIDE DEF flag
<1> HIDE DEF slot
<1>8. no \in BOOLEAN /\ ~no
  OBVIOUS
<1> HIDE DEF no
<1>9. /\ u.header = [t.header EXCEPT ![slot] = h]
      /\ u.useHeaderSlot = t.useHeaderSlot /\ u.data = t.data
      /\ u.frameErrorFlag = t.frameErrorFlag /\ u.useFrameSlot = t.useFrameSlot
      /\ u.flush = no /\ u.forceReset = no
  BY <1>4, <1>5, <1>8 DEF SbrDecoder, Valid
<1> HIDE DEF u
<1>10. \A g \in Slot : Synced(u.header[g]) <=> Synced(t.header[g])
  BY <1>4, <1>5, <1>9
<1>11. \A k \in Slot : Carried(u, k) <=> Carried(t, k)
  BY <1>4, <1>9, <1>10 DEF Carried
<1>12. Apply(s, ok).sbr = u /\ Apply(s, ok).rendered = Rendered(h, d)
  BY <1>2
<1> QED BY <1>6, <1>7, <1>8, <1>9, <1>11, <1>12 DEF d, t

\* Without a flush the slot is the one that is in use; what can be decoded stays so
\* if the core could be, and nothing else can.
LEMMA PreparesFrame ==
  ASSUME NEW s, SoundSbr(s), NEW ok \in BOOLEAN, ~s.flush
  PROVE  LET t == Prepared(s, ok)
         IN  /\ t.useFrameSlot = s.useFrameSlot /\ t.data = s.data
             /\ \A k \in Slot : Carried(t, k) <=> (ok /\ Carried(s, k))
<1> DEFINE zero == 0
           counted == [s EXCEPT !.numFlushedFrames = zero]
           flags == [k \in Slot |-> TRUE]
           failed == [counted EXCEPT !.frameErrorFlag = flags]
           t == Prepared(s, ok)
<1>1. s \in SbrDecoder /\ zero \in 0..2
  BY DEF SoundSbr
<1> HIDE DEF zero
<1>2. /\ counted \in SbrDecoder /\ counted.useFrameSlot = s.useFrameSlot
      /\ counted.data = s.data /\ counted.header = s.header /\ counted.flush = s.flush
      /\ counted.useHeaderSlot = s.useHeaderSlot /\ counted.frameErrorFlag = s.frameErrorFlag
  BY <1>1 DEF SbrDecoder
<1>3. t = Flushed(IF ok THEN counted ELSE Failed(counted))
  BY DEF Prepared, zero
<1> HIDE DEF t, counted
<1>4. CASE ok
  <2>1. t = counted
    BY <1>2, <1>3, <1>4 DEF Flushed
  <2> QED BY <1>2, <1>4, <2>1 DEF Carried, t
<1>5. CASE ~ok
  <2>1. \A k \in Slot : flags[k]
    OBVIOUS
  <2>2. Failed(counted) = failed
    BY DEF Failed
  <2> HIDE DEF flags
  <2>3. /\ failed.flush = counted.flush /\ failed.frameErrorFlag = flags
        /\ failed.useFrameSlot = s.useFrameSlot /\ failed.data = s.data
    BY <1>2 DEF SbrDecoder
  <2> HIDE DEF failed
  <2>4. t = failed
    BY <1>2, <1>3, <1>5, <2>2, <2>3 DEF Flushed
  <2> QED BY <1>5, <2>1, <2>3, <2>4 DEF Carried, t
<1> QED BY <1>4, <1>5

\* A flush goes on to the delayed frame, or there is nothing left to decode.
LEMMA PreparesFlush ==
  ASSUME NEW s, SoundSbr(s), NEW ok \in BOOLEAN, s.flush
  PROVE  LET t == Prepared(s, ok)
         IN  \/ \A k \in Slot : ~Carried(t, k)
             \/ /\ s.numDelayFrames = 1 /\ ok
                /\ t.useFrameSlot = Other(s) /\ t.data = s.data
                /\ \A k \in Slot : Carried(t, k) <=> Carried(s, k)
<1> DEFINE n == IF s.numFlushedFrames < 2 THEN s.numFlushedFrames + 1 ELSE s.numFlushedFrames
           counted == [s EXCEPT !.numFlushedFrames = n]
           next == IF ok THEN counted ELSE Failed(counted)
           t == Prepared(s, ok)
<1>1. /\ s \in SbrDecoder /\ s.numDelayFrames \in {0, 1} /\ s.useFrameSlot \in {0, 1}
      /\ n \in 0..2 /\ n > 0
  <2>1. s \in SbrDecoder
    BY DEF SoundSbr
  <2>2. s.numDelayFrames \in 0..1 /\ s.useFrameSlot \in Slot /\ s.numFlushedFrames \in 0..2
    BY <2>1, Fields
  <2>3. n \in 0..2 /\ n > 0
    BY <2>2
  <2> HIDE DEF n
  <2> QED BY <2>1, <2>2, <2>3, SlotIsBit
<1>2. t = Flushed(next)
  BY DEF Prepared
<1> HIDE DEF n
<1>3. /\ counted \in SbrDecoder /\ counted.useFrameSlot = s.useFrameSlot
      /\ counted.data = s.data /\ counted.header = s.header /\ counted.flush = s.flush
      /\ counted.useHeaderSlot = s.useHeaderSlot /\ counted.frameErrorFlag = s.frameErrorFlag
      /\ counted.numFlushedFrames = n /\ counted.numDelayFrames = s.numDelayFrames
  BY <1>1 DEF SbrDecoder
<1>4. SoundSbr(counted)
  BY <1>1, CountedSound
<1> HIDE DEF t, counted
<1> DEFINE flags == [k \in Slot |-> TRUE]
           failed == [counted EXCEPT !.frameErrorFlag = flags]
<1>5. Failed(counted) = failed
  BY DEF Failed
<1>6. \A k \in Slot : flags[k]
  OBVIOUS
<1> HIDE DEF flags
<1>7. /\ failed.useFrameSlot = s.useFrameSlot /\ failed.flush = s.flush
      /\ failed.frameErrorFlag = flags /\ failed.numFlushedFrames = n
      /\ failed.numDelayFrames = s.numDelayFrames
  BY <1>3 DEF SbrDecoder
<1>8. SoundSbr(failed)
  BY <1>4, <1>5, FailedSound
<1> HIDE DEF failed
<1>9. /\ next \in SbrDecoder /\ next.flush /\ next.numFlushedFrames = n
      /\ next.numDelayFrames = s.numDelayFrames /\ next.useFrameSlot = s.useFrameSlot
      /\ ok => next = counted
      /\ ~ok => \A k \in Slot : next.frameErrorFlag[k]
  BY <1>3, <1>5, <1>6, <1>7, <1>8 DEF SoundSbr
<1> HIDE DEF next
<1>10. CASE n > s.numDelayFrames
  <2> DEFINE upsampling == [k \in Slot |-> ToUpsampling(next.header[k])]
             u == [next EXCEPT !.header = upsampling]
  <2>1. t = u
    BY <1>2, <1>9, <1>10 DEF Flushed
  <2>2. \A k \in Slot : ~Synced(upsampling[k])
    BY <1>9, Fields, ToUpsamplingTyped
  <2> HIDE DEF upsampling
  <2>3. u.header = upsampling /\ u.useHeaderSlot = next.useHeaderSlot
    BY <1>9 DEF SbrDecoder
  <2> HIDE DEF u
  <2>4. next.useHeaderSlot \in [Slot -> Slot]
    BY <1>9, Fields
  <2>5. \A k \in Slot : ~Carried(t, k)
    BY <2>1, <2>2, <2>3, <2>4 DEF Carried
  <2> QED BY <2>5 DEF t
<1>11. CASE ~(n > s.numDelayFrames)
  <2> DEFINE m == (next.useFrameSlot + 1) % (next.numDelayFrames + 1)
             u == [next EXCEPT !.useFrameSlot = m]
  <2>1. t = u
    BY <1>2, <1>9, <1>11 DEF Flushed, Advance
  <2>2. s.numDelayFrames = 1 /\ m = Other(s)
    BY <1>1, <1>9, <1>11 DEF Other
  <2> HIDE DEF m
  <2>3. /\ u.useFrameSlot = m /\ u.header = next.header /\ u.data = next.data
        /\ u.useHeaderSlot = next.useHeaderSlot /\ u.frameErrorFlag = next.frameErrorFlag
    BY <1>9 DEF SbrDecoder
  <2> HIDE DEF u
  <2>4. CASE ok
    <3>1. t.data = s.data /\ \A k \in Slot : Carried(t, k) <=> Carried(s, k)
      BY <1>3, <1>9, <2>1, <2>3, <2>4 DEF Carried
    <3> QED BY <2>1, <2>2, <2>3, <2>4, <3>1 DEF t
  <2>5. CASE ~ok
    <3>1. \A k \in Slot : ~Carried(t, k)
      BY <1>9, <2>1, <2>3, <2>5 DEF Carried
    <3> QED BY <3>1 DEF t
  <2> QED BY <2>4, <2>5
<1> QED BY <1>10, <1>11

\* An interruption does not touch what waits in the other slot.
LEMMA InterruptsSlot ==
  ASSUME NEW s, SoundSbr(s)
  PROVE  LET t == Interrupted(s)
         IN  /\ t.useFrameSlot = s.useFrameSlot /\ t.data = s.data
             /\ t.flush = s.flush /\ t.forceReset = s.forceReset
             /\ \A k \in Slot : Carried(t, k) => Carried(s, k)
             /\ Carried(s, Other(s)) => Carried(t, Other(s))
<1> DEFINE slot == HeaderSlot(s, s.useFrameSlot)
           h == [s.header[slot] EXCEPT !.syncState = "Upsampling", !.update = TRUE]
           t == [s EXCEPT !.header[slot] = h]
<1>1. /\ s \in SbrDecoder /\ slot \in Slot /\ s.header \in [Slot -> SbrHeader]
      /\ s.useHeaderSlot \in [Slot -> Slot] /\ Other(s) \in Slot
      /\ Other(s) # s.useFrameSlot /\ s.useHeaderSlot[Other(s)] # slot
  <2>1. s \in SbrDecoder
    BY DEF SoundSbr
  <2>2. s.useFrameSlot \in {0, 1}
    BY <2>1, Fields, SlotIsBit
  <2>3. Other(s) \in Slot /\ Other(s) # s.useFrameSlot
    BY <2>2, SlotIsBit DEF Other
  <2> QED BY <2>1, <2>3, Fields, HeaderSlotIsOwn
<1>2. CASE s.header[slot].syncState = "NotInitialized"
  <2>1. Interrupted(s) = s
    BY <1>2 DEF Interrupted
  <2> QED BY <2>1
<1>3. CASE s.header[slot].syncState # "NotInitialized"
  <2>1. Interrupted(s) = [s EXCEPT !.header[slot].syncState = "Upsampling", !.header[slot].update = TRUE]
    BY <1>3 DEF Interrupted
  <2> HIDE DEF slot
  <2>2. Interrupted(s) = t
    BY <2>1, <1>1 DEF SbrDecoder, SbrHeader
  <2>3. ~Synced(h)
    <3>1. s.header[slot] \in SbrHeader
      BY <1>1
    <3> QED BY <3>1 DEF SbrHeader, Synced
  <2> HIDE DEF h
  <2>5. /\ t.header = [s.header EXCEPT ![slot] = h]
        /\ t.useHeaderSlot = s.useHeaderSlot /\ t.data = s.data
        /\ t.frameErrorFlag = s.frameErrorFlag /\ t.useFrameSlot = s.useFrameSlot
        /\ t.flush = s.flush /\ t.forceReset = s.forceReset
    BY <1>1 DEF SbrDecoder
  <2> HIDE DEF t
  <2>6. \A g \in Slot : Synced(t.header[g]) => Synced(s.header[g])
    BY <1>1, <2>3, <2>5
  <2>7. \A k \in Slot : Carried(t, k) => Carried(s, k)
    BY <1>1, <2>5, <2>6 DEF Carried
  <2>8. Carried(s, Other(s)) => Carried(t, Other(s))
    BY <1>1, <2>5 DEF Carried
  <2> QED BY <2>2, <2>5, <2>7, <2>8
<1> QED BY <1>2, <1>3

-----------------------------------------------------------------------------
\* What the calls in a row hand on.  With interpolation the frame in the other slot, if
\* it can be decoded, is the one that is in the buffer of the core; without it no frame
\* waits.
Paired ==
  steady >= 1 =>
    IF method = "Inter"
    THEN Carried(sbr, Other(sbr)) =>
           info.prevFrameOk[1] /\ info.spectrum.from \subseteq {sbr.data[Other(sbr)].age}
    ELSE sbr.useFrameSlot = 1 => ~Carried(sbr, 0)

\* After a frame with a header the next one is decoded.
Headed ==
  headers >= 1 => IF method = "Inter" THEN Carried(sbr, Other(sbr)) ELSE sbr.useFrameSlot = 0

\* Between calls no flush is going on, and a forced reset starts the counts again.
AtRest == ~sbr.flush /\ (sbr.forceReset => steady = 0 /\ headers = 0)

CallsInv == IInv /\ Paired /\ Headed /\ AtRest /\ InStep /\ SbrRecovers

\* A good frame that is shown is in the buffer, and is what is rendered unless the
\* frame before it is.
LEMMA CoreShows ==
  ASSUME IInv, NEW frame \in Frame, Core(TRUE, frame), Shown
  PROVE  /\ info'.prevFrameOk[1]
         /\ info'.spectrum.from = Parsed(frame).spectrum.from
         /\ method # "Inter" => out'.spectrum.from = Parsed(frame).spectrum.from
         /\ (method = "Inter" /\ info.prevFrameOk[1]) => out'.spectrum.from = Ages(info.spectrum)
<1> DEFINE new == Parsed(frame).spectrum.from
           old == Ages(info.spectrum)
           yes == TRUE
<1>1. Render(yes, frame) /\ yes \in BOOLEAN /\ yes
  BY DEF Core
<1> HIDE DEF yes
<1>2. /\ StateSteps(info, info', yes) /\ info'.prevFrameOk[1] = yes
      /\ info'.spectrum.from = Buffers(old, new, yes, info')
      /\ out'.spectrum.from = Shows(old, new, yes, info')
  BY <1>1, RenderSteps
<1>3. method \in {"Noise", "Inter", "Mute"} /\ info.concealState \in States
  BY ConcealAssumption DEF IInv, TypeOK, Info
<1>4. info'.concealState \notin {"Mute", "FadeOut"}
  BY DEF Shown
<1>5. ~MuteReleaseActive(yes)
  <2> SUFFICES ASSUME MuteReleaseActive(yes) PROVE FALSE
    OBVIOUS
  <2>1. /\ info.concealState \in {"Mute", "FadeOut"}
        /\ info.cntValidFrames + 1 <= NumMuteRelease
    BY DEF MuteReleaseActive
  <2>2. info.cntValidFrames \in Nat /\ NumMuteRelease \in Nat
    BY Constants DEF IInv, TypeOK, Info
  <2>6. ~(info.cntValidFrames + 1 > NumMuteRelease)
    BY <2>1, <2>2
  <2>3. CASE method = "Noise"
    <3>1. GoodNoise(info, info')
      BY <1>1, <1>2, <2>3 DEF StateSteps
    <3>2. info'.concealState \in {"Mute", "FadeOut"}
      <4>1. CASE info.concealState = "Mute"
        BY <2>6, <3>1, <4>1 DEF GoodNoise
      <4>2. CASE info.concealState = "FadeOut"
        BY <2>6, <3>1, <4>2 DEF GoodNoise
      <4> QED BY <2>1, <4>1, <4>2
    <3> QED BY <1>4, <3>2
  <2>4. CASE method = "Inter"
    <3> DEFINE e == Estimable(info, yes)
               heard == yes \/ info.prevFrameOk[1]
    <3>1. StepInter(info, info', e, heard)
      BY <1>2, <2>4 DEF StateSteps
    <3> HIDE DEF e, heard
    <3>2. CASE info.concealState = "Mute"
      <4>1. info'.concealState = "Mute"
        BY <2>6, <3>1, <3>2 DEF StepInter
      <4> QED BY <1>4, <4>1
    <3>3. CASE info.concealState = "FadeOut"
      <4>1. info'.concealState = "Mute" \/ info'.concealState = "FadeOut"
        BY <2>6, <3>1, <3>3 DEF StepInter
      <4> QED BY <1>4, <4>1
    <3> QED BY <2>1, <3>2, <3>3
  <2>5. CASE method = "Mute"
    BY <1>2, <1>4, <2>1, <2>5 DEF StateSteps, SameCounts
  <2> QED BY <1>3, <2>3, <2>4, <2>5
<1>6. Stored(old, new, yes) = new
  BY <1>1, <1>5 DEF Stored
<1> HIDE DEF new, old
<1>7. info'.spectrum.from = new
  BY <1>2, <1>4, <1>6 DEF Buffers
<1>8. method # "Inter" => out'.spectrum.from = new
  BY <1>1, <1>2, <1>3, <1>4, <1>6 DEF Shows
<1>9. (method = "Inter" /\ info.prevFrameOk[1]) => out'.spectrum.from = old
  <2> SUFFICES ASSUME method = "Inter", info.prevFrameOk[1] PROVE out'.spectrum.from = old
    OBVIOUS
  <2> DEFINE both == /\ yes /\ ~MuteReleaseActive(yes)
                     /\ ~info.prevFrameOk[1] /\ info.prevFrameOk[0]
  <2>1. ~both
    OBVIOUS
  <2>2. Shows(old, new, yes, info') = IF info'.concealState = "Mute" THEN {}
                                      ELSE IF both THEN old \cup new ELSE old
    BY DEF Shows
  <2> HIDE DEF both
  <2>3. Shows(old, new, yes, info') = old
    BY <1>4, <2>1, <2>2
  <2> QED BY <1>2, <2>3
<1>10. info'.prevFrameOk[1]
  BY <1>1, <1>2
<1> QED BY <1>7, <1>8, <1>9, <1>10 DEF new, old

LEMMA LongFrames ==
  LET cleared == [LongFrame EXCEPT !.cleared = TRUE]
  IN  /\ LongFrame \in Frame /\ cleared \in Frame
      /\ Parsed(LongFrame).spectrum.from = {0} /\ Parsed(cleared).spectrum.from = {}
<1>1. [LongFrame EXCEPT !.cleared = TRUE] = [sequence |-> "Long", group |-> 1, cleared |-> TRUE]
  <2> DEFINE yes == TRUE
             no == FALSE
             one == 1
             long == "Long"
             f == [sequence |-> long, group |-> one, cleared |-> no]
  <2> HIDE DEF yes, no, one, long
  <2>1. [f EXCEPT !.cleared = yes] = [sequence |-> long, group |-> one, cleared |-> yes]
    OBVIOUS
  <2> QED BY <2>1 DEF LongFrame, yes, no, one, long
<1>2. [sequence |-> "Long", group |-> 1, cleared |-> TRUE] \in Frame
  BY ConcealAssumption DEF Frame, WindowSequences
<1>3. Parsed([sequence |-> "Long", group |-> 1, cleared |-> TRUE]).spectrum.from = {}
  BY DEF Parsed
<1>4. Parsed(LongFrame).spectrum.from = {0}
  BY DEF Parsed, LongFrame
<1> QED BY <1>1, <1>2, <1>3, <1>4, LongIsFrame

\* A frame and its data age alike.
LEMMA AgesAlike ==
  ASSUME NEW spectrum \in Spectrum, NEW a, spectrum.from \subseteq {a}
  PROVE  Ages(spectrum) \subseteq {LaterAge(a)}
<1>1. Ages(spectrum) = {IF b < Oldest THEN b + 1 ELSE b : b \in spectrum.from}
  BY DEF Ages, Older, Spectrum
<1>2. OldestData = Oldest
  BY FramesAssumption
<1> QED BY <1>1, <1>2 DEF LaterAge

LEMMA CoreKeeps ==
  ASSUME IInv, NEW ok \in BOOLEAN, NEW frame \in Frame, Core(ok, frame)
  PROVE  IInv' /\ method' = method
<1>1. Render(ok, frame) /\ UNCHANGED <<recent, run, switched>>
  BY DEF Core
<1>2. recent' \in Seq(BOOLEAN) /\ run' \in 0..LongRun
  BY <1>1 DEF IInv, TypeOK
<1> QED BY <1>1, <1>2, RenderKeepsInv, RenderSteps

LEMMA InitsElement ==
  ASSUME NEW s \in SbrDecoder
  PROVE  InitElement(s).flush = s.flush /\ (~s.forceReset => InitElement(s) = s)
<1> DEFINE i == InitElement(s)
<1>1. CASE ~s.forceReset
  BY <1>1 DEF InitElement
<1>2. CASE s.forceReset
  <2> DEFINE flags == [k \in Slot |-> FALSE]
             r == [s EXCEPT !.frameErrorFlag = flags]
             hs == [k \in Slot |-> IF r.forceReset \/ r.header[k].syncState = "NotInitialized"
                                   THEN DefaultHeader ELSE ToUpsampling(r.header[k])]
             same == [k \in Slot |-> k]
             zero == 0
  <2>1. r \in SbrDecoder /\ r.flush = s.flush
    <3>1. flags \in [Slot -> BOOLEAN]
      OBVIOUS
    <3> HIDE DEF flags
    <3> QED BY <3>1 DEF SbrDecoder
  <2>2. i = ResetElement(r)
    BY <1>2 DEF InitElement
  <2> HIDE DEF r
  <2>3. ResetElement(r) = [r EXCEPT !.header = hs, !.useFrameSlot = zero, !.useHeaderSlot = same]
    BY DEF ResetElement
  <2> HIDE DEF hs, zero, same, i
  <2>4. [r EXCEPT !.header = hs, !.useFrameSlot = zero, !.useHeaderSlot = same].flush = r.flush
    BY <2>1 DEF SbrDecoder
  <2>5. i.flush = s.flush
    BY <2>1, <2>2, <2>3, <2>4
  <2> QED BY <1>2, <2>5 DEF i
<1> QED BY <1>1, <1>2

\* The slots after the payload of a frame has been parsed.  With a delay the other slot
\* is now the one that was parsed; without one, it is slot 0 from the second call on.
LEMMA ParsedFrame ==
  ASSUME FramesIInv, ~sbr.flush, NEW p \in Payload
  PROVE  LET t == Parsed2(p)
         IN  /\ ~t.flush
             /\ sbr.numDelayFrames = 0 => t.useFrameSlot = 0
             /\ sbr.numDelayFrames = 1 =>
                  /\ Carried(t, Other(t)) => t.data[Other(t)].age = 0
                  /\ HasHeader(p) => Carried(t, Other(t))
             /\ (~sbr.forceReset /\ sbr.numDelayFrames = 1) =>
                  /\ t.useFrameSlot = Other(sbr)
                  /\ Carried(t, Other(sbr)) <=> Carried(sbr, Other(sbr))
                  /\ t.data[Other(sbr)].age = LaterAge(sbr.data[Other(sbr)].age)
             /\ (~sbr.forceReset /\ sbr.numDelayFrames = 0) =>
                  IF sbr.useFrameSlot = 0
                  THEN /\ Carried(t, 0) => t.data[0].age = 0
                       /\ HasHeader(p) => Carried(t, 0)
                  ELSE Carried(t, 0) <=> Carried(sbr, 0)
<1> DEFINE i == InitElement(sbr)
           s == AgedData(i)
           t == Parsed2(p)
           u == s.useFrameSlot
<1>1. SoundSbr(sbr) /\ sbr \in SbrDecoder
  BY DelaysKnown DEF SoundSbr
<1>2. SoundSbr(i) /\ i.numDelayFrames = sbr.numDelayFrames
  BY <1>1, InitElementSound
<1>3. i.flush = sbr.flush /\ (~sbr.forceReset => i = sbr)
  BY <1>1, InitsElement
<1> HIDE DEF i
<1>4. /\ SoundSbr(s) /\ SameFrames(i, s)
      /\ \A k \in Slot : s.data[k].age = LaterAge(i.data[k].age)
  BY <1>2, AgedSound, AgesData
<1>5. t = Parse(s, p)
  <2>1. p # NoPayload
    BY DEF Payload, NoPayload
  <2> QED BY <2>1 DEF Parsed2, i
<1> HIDE DEF s, t
<1>6. /\ t.useFrameSlot = (u + 1) % (s.numDelayFrames + 1)
      /\ t.flush = s.flush
      /\ \A k \in Slot \ {u} : (Carried(t, k) <=> Carried(s, k)) /\ t.data[k] = s.data[k]
      /\ Carried(t, u) => t.data[u].age = 0
      /\ HasHeader(p) => Carried(t, u)
  BY <1>4, <1>5, ParseCarries
<1>7. u \in {0, 1} /\ s.numDelayFrames = sbr.numDelayFrames /\ Slot = {0, 1}
      /\ sbr.numDelayFrames \in {0, 1} /\ s.flush = sbr.flush
  <2>1. s \in SbrDecoder /\ sbr \in SbrDecoder
    BY <1>1, <1>4 DEF SoundSbr
  <2>2. u \in Slot /\ sbr.numDelayFrames \in 0..1
    BY <2>1, Fields
  <2> QED BY <1>2, <1>3, <1>4, <2>2, SlotIsBit DEF SameFrames
<1>8. ~sbr.forceReset => /\ u = sbr.useFrameSlot
                         /\ \A k \in Slot : /\ Carried(s, k) <=> Carried(sbr, k)
                                            /\ s.data[k].age = LaterAge(sbr.data[k].age)
  BY <1>3, <1>4 DEF SameFrames, Carried
<1> HIDE DEF u
<1>9. CASE sbr.numDelayFrames = 1
  <2>1. t.useFrameSlot = 1 - u /\ Other(t) = u
    BY <1>6, <1>7, <1>9 DEF Other
  <2>2. ~sbr.forceReset => /\ Other(sbr) = 1 - u /\ Other(sbr) \in Slot \ {u}
    BY <1>7, <1>8 DEF Other
  <2>3. ~sbr.forceReset => /\ Carried(t, Other(sbr)) <=> Carried(sbr, Other(sbr))
                           /\ t.data[Other(sbr)].age = LaterAge(sbr.data[Other(sbr)].age)
    BY <1>6, <1>8, <2>2
  <2> QED BY <1>6, <1>7, <1>9, <2>1, <2>2, <2>3 DEF t
<1>10. CASE sbr.numDelayFrames = 0
  <2>1. t.useFrameSlot = 0
    BY <1>6, <1>7, <1>10
  <2>2. CASE u = 0
    BY <1>6, <1>7, <1>8, <1>10, <2>1, <2>2 DEF t
  <2>3. CASE u = 1
    <3>1. 0 \in Slot \ {u}
      BY <1>7, <2>3
    <3>2. Carried(t, 0) <=> Carried(s, 0)
      BY <1>6, <3>1
    <3> QED BY <1>6, <1>7, <1>8, <1>10, <2>1, <2>3, <3>1, <3>2 DEF t
  <2> QED BY <1>7, <2>2, <2>3
<1> QED BY <1>7, <1>9, <1>10

\* sbrDecoder_Apply after a frame: what it leaves, and what it renders.
LEMMA AppliedFrame ==
  ASSUME FramesIInv, NEW s, SoundSbr(s), s.numDelayFrames = sbr.numDelayFrames, ~s.flush,
         NEW coreOk \in BOOLEAN, ApplySbr(s, coreOk)
  PROVE  /\ ~sbr'.flush /\ ~sbr'.forceReset
         /\ sbr'.useFrameSlot = s.useFrameSlot /\ sbr'.data = s.data
         /\ \A k \in Slot : Carried(sbr', k) <=> (coreOk /\ Shown /\ Carried(s, k))
         /\ rendered'.mode = "Decoded" <=> (coreOk /\ Shown /\ Carried(s, s.useFrameSlot))
         /\ rendered'.mode = "Decoded" => rendered'.age = s.data[s.useFrameSlot].age
<1> DEFINE ok == coreOk /\ Shown
           d == delays.bsDelay
           same == [s EXCEPT !.numDelayFrames = d]
           r == Apply(s, ok)
           t == Prepared(s, ok)
<1>1. ok \in BOOLEAN /\ (ok <=> (coreOk /\ Shown))
  OBVIOUS
<1>2. same = s
  <2>1. d = s.numDelayFrames /\ s \in SbrDecoder
    BY DelaysKnown DEF SoundSbr
  <2> HIDE DEF d
  <2> QED BY <2>1 DEF SbrDecoder
<1>3. sbr' = r.sbr /\ rendered' = r.rendered
  BY <1>2 DEF ApplySbr
<1> HIDE DEF ok
<1>4. /\ t.useFrameSlot = s.useFrameSlot /\ t.data = s.data
      /\ \A k \in Slot : Carried(t, k) <=> (ok /\ Carried(s, k))
  BY <1>1, PreparesFrame
<1>5. /\ r.sbr.useFrameSlot = t.useFrameSlot /\ r.sbr.data = t.data
      /\ ~r.sbr.flush /\ ~r.sbr.forceReset
      /\ \A k \in Slot : Carried(r.sbr, k) <=> Carried(t, k)
      /\ r.rendered.mode = "Decoded" <=> Carried(t, t.useFrameSlot)
      /\ r.rendered.mode = "Decoded" => r.rendered.age = t.data[t.useFrameSlot].age
  BY <1>1, AppliesSlot
<1>6. s.useFrameSlot \in Slot
  BY Fields DEF SoundSbr
<1> HIDE DEF r, t
<1> QED BY <1>1, <1>3, <1>4, <1>5, <1>6

\* A call in which nothing could be decoded.
LEMMA NothingDecoded ==
  ASSUME IInv', ~sbr'.flush, ~sbr'.forceReset, \A k \in Slot : ~Carried(sbr', k),
         Other(sbr') \in Slot, rendered'.mode # "Decoded", headers' = 0
  PROVE  CallsInv'
<1>1. 0 \in Slot
  BY SlotIsBit
<1>2. Paired'
  BY <1>1 DEF Paired
<1>3. Headed' /\ SbrRecovers'
  BY DEF Headed, SbrRecovers
<1>4. AtRest' /\ InStep'
  BY DEF AtRest, InStep
<1> QED BY <1>2, <1>3, <1>4 DEF CallsInv

LEMMA SbrTyped == FramesIInv => SoundSbr(sbr) /\ Other(sbr) \in Slot
BY OthersSlot DEF FramesIInv, SoundSbr

LEMMA SbrTypedNext == FramesIInv' => SoundSbr(sbr') /\ Other(sbr') \in Slot
<1> SUFFICES ASSUME FramesIInv' PROVE SoundSbr(sbr') /\ Other(sbr') \in Slot
  OBVIOUS
<1>1. SoundSbr(sbr')
  BY DEF FramesIInv
<1> QED BY <1>1, OthersSlot DEF SoundSbr

LEMMA MethodDelay ==
  ASSUME FramesIInv
  PROVE  /\ (method = "Inter") <=> (sbr.numDelayFrames = 1)
         /\ (method # "Inter") <=> (sbr.numDelayFrames = 0)
BY DelaysKnown DEF GetDelay

LEMMA LostCalls ==
  ASSUME FramesIInv, FramesIInv', IInv, NEW s, SoundSbr(s),
         s.numDelayFrames = sbr.numDelayFrames, ~s.flush,
         NEW ok \in BOOLEAN, Core(ok, LongFrame), ApplySbr(s, ok), ~(ok /\ Shown), headers' = 0
  PROVE  CallsInv'
<1>1. IInv'
  BY CoreKeeps, LongFrames
<1>2. /\ ~sbr'.flush /\ ~sbr'.forceReset
      /\ \A k \in Slot : ~Carried(sbr', k)
      /\ rendered'.mode # "Decoded"
  BY AppliedFrame
<1> QED BY <1>1, <1>2, SbrTypedNext, NothingDecoded

LEMMA ParsedSlots ==
  ASSUME FramesIInv, AtRest, NEW p \in Payload \cup {NoPayload}
  PROVE  /\ SoundSbr(Parsed2(p)) /\ Parsed2(p).numDelayFrames = sbr.numDelayFrames
         /\ ~Parsed2(p).flush
<1>1. SoundSbr(sbr) /\ sbr \in SbrDecoder /\ ~sbr.flush
  BY SbrTyped DEF SoundSbr, AtRest
<1>2. ~Parsed2(p).flush
  <2>1. CASE p \in Payload
    BY <1>1, <2>1, ParsedFrame
  <2>2. CASE p = NoPayload
    <3> DEFINE i == InitElement(sbr)
    <3>1. Parsed2(p) = AgedData(i)
      BY <2>2 DEF Parsed2
    <3>2. SoundSbr(i) /\ ~i.flush
      BY <1>1, InitElementSound, InitsElement
    <3> HIDE DEF i
    <3> QED BY <3>1, <3>2, AgesData DEF SameFrames
  <2> QED BY <2>1, <2>2
<1> QED BY <1>1, <1>2, Parsed2Sound

\* A frame with a payload that is shown.
LEMMA ShownCalls ==
  ASSUME FramesIInv, FramesIInv', CallsInv, NEW p \in Payload, DecodeGood(p), Shown
  PROVE  CallsInv'
<1> DEFINE s == Parsed2(p)
           o == Other(sbr)
<1>1. IInv /\ Paired /\ Headed /\ AtRest
  BY DEF CallsInv
<1>2. /\ Core(TRUE, LongFrame) /\ ApplySbr(s, TRUE)
      /\ steady' = IF p = NoPayload THEN 0 ELSE Upto(2, steady)
      /\ headers' = IF HasHeader(p) /\ Shown THEN Upto(2, headers) ELSE 0
      /\ method' = method
  BY DEF DecodeGood, Ended
<1>3. SoundSbr(s) /\ s.numDelayFrames = sbr.numDelayFrames /\ ~s.flush
  BY <1>1, ParsedSlots
<1>4. /\ ~sbr'.flush /\ ~sbr'.forceReset
      /\ sbr'.useFrameSlot = s.useFrameSlot /\ sbr'.data = s.data
      /\ \A k \in Slot : Carried(sbr', k) <=> Carried(s, k)
      /\ rendered'.mode = "Decoded" <=> Carried(s, s.useFrameSlot)
      /\ rendered'.mode = "Decoded" => rendered'.age = s.data[s.useFrameSlot].age
  BY <1>2, <1>3, AppliedFrame
<1>5. /\ sbr.numDelayFrames = 0 => s.useFrameSlot = 0
      /\ sbr.numDelayFrames = 1 =>
           /\ Carried(s, Other(s)) => s.data[Other(s)].age = 0
           /\ HasHeader(p) => Carried(s, Other(s))
      /\ (~sbr.forceReset /\ sbr.numDelayFrames = 1) =>
           /\ s.useFrameSlot = o
           /\ Carried(s, o) <=> Carried(sbr, o)
           /\ s.data[o].age = LaterAge(sbr.data[o].age)
      /\ (~sbr.forceReset /\ sbr.numDelayFrames = 0) =>
           IF sbr.useFrameSlot = 0
           THEN /\ Carried(s, 0) => s.data[0].age = 0
                /\ HasHeader(p) => Carried(s, 0)
           ELSE Carried(s, 0) <=> Carried(sbr, 0)
  BY <1>1, ParsedFrame DEF AtRest
<1>6. /\ info'.prevFrameOk[1] /\ info'.spectrum.from = {0}
      /\ method # "Inter" => out'.spectrum.from = {0}
      /\ (method = "Inter" /\ info.prevFrameOk[1]) => out'.spectrum.from = Ages(info.spectrum)
  BY <1>1, <1>2, LongFrames, CoreShows
<1>7. IInv'
  BY <1>1, <1>2, LongFrames, CoreKeeps
<1>8. /\ 0 \in Slot /\ Other(s) \in Slot /\ Other(sbr') = Other(s)
      /\ s.useFrameSlot \in {0, 1} /\ sbr.useFrameSlot \in {0, 1} /\ o \in Slot
  <2>1. s \in SbrDecoder /\ sbr \in SbrDecoder
    BY <1>3, SbrTyped DEF SoundSbr
  <2>2. Other(sbr') = Other(s)
    BY <1>4 DEF Other
  <2> QED BY <2>1, <2>2, OthersSlot, Fields, SlotIsBit
<1>9. /\ steady \in 0..2 /\ headers \in 0..2
      /\ steady' = 2 => steady >= 1
      /\ headers' = 2 => headers >= 1 /\ HasHeader(p)
      /\ headers' >= 1 => HasHeader(p)
  BY <1>2 DEF FramesIInv, FramesTypeOK, Upto
<1>10. (method = "Inter") <=> (sbr.numDelayFrames = 1)
  BY MethodDelay
<1>11. (method # "Inter") <=> (sbr.numDelayFrames = 0)
  BY MethodDelay
<1> HIDE DEF s
<1>12. Paired'
  <2>1. CASE method = "Inter"
    <3>1. Carried(sbr', Other(sbr')) => sbr'.data[Other(sbr')].age = 0
      BY <1>4, <1>5, <1>8, <1>10, <2>1
    <3>2. method' = "Inter"
      BY <1>2, <2>1
    <3>3. Carried(sbr', Other(sbr')) =>
            info'.spectrum.from \subseteq {sbr'.data[Other(sbr')].age}
      BY <1>6, <3>1
    <3> QED BY <1>6, <3>2, <3>3 DEF Paired
  <2>2. CASE method # "Inter"
    <3>1. sbr'.useFrameSlot = 0 /\ method' # "Inter"
      BY <1>2, <1>4, <1>5, <1>11, <2>2
    <3> QED BY <3>1 DEF Paired
  <2> QED BY <2>1, <2>2
<1>13. Headed'
  <2>1. CASE method = "Inter"
    <3>1. HasHeader(p) => Carried(sbr', Other(sbr'))
      BY <1>4, <1>5, <1>8, <1>10, <2>1
    <3> QED BY <1>2, <1>9, <2>1, <3>1 DEF Headed
  <2>2. CASE method # "Inter"
    <3>1. sbr'.useFrameSlot = 0 /\ method' # "Inter"
      BY <1>2, <1>4, <1>5, <1>11, <2>2
    <3> QED BY <3>1 DEF Headed
  <2> QED BY <2>1, <2>2
<1>14. AtRest'
  BY <1>4 DEF AtRest
<1>15. InStep'
  <2> SUFFICES ASSUME rendered'.mode = "Decoded", steady' = 2
               PROVE  out'.spectrum.from \subseteq {rendered'.age}
    BY DEF InStep
  <2>1. steady >= 1 /\ ~sbr.forceReset
    BY <1>1, <1>9 DEF AtRest
  <2>2. Carried(s, s.useFrameSlot) /\ rendered'.age = s.data[s.useFrameSlot].age
    BY <1>4
  <2>3. CASE method = "Inter"
    <3>1. /\ s.useFrameSlot = o /\ Carried(sbr, o)
          /\ rendered'.age = LaterAge(sbr.data[o].age)
      BY <1>5, <1>10, <2>1, <2>2, <2>3
    <3>2. info.prevFrameOk[1] /\ info.spectrum.from \subseteq {sbr.data[o].age}
      BY <1>1, <2>1, <2>3, <3>1 DEF Paired
    <3>3. info.spectrum \in Spectrum
      BY <1>1 DEF IInv, TypeOK, Info
    <3> HIDE DEF o
    <3>4. Ages(info.spectrum) \subseteq {LaterAge(sbr.data[o].age)}
      BY <3>2, <3>3, AgesAlike
    <3> QED BY <1>6, <2>3, <3>1, <3>2, <3>4
  <2>4. CASE method # "Inter"
    <3>1. s.useFrameSlot = 0
      BY <1>5, <1>11, <2>4
    <3>2. CASE sbr.useFrameSlot = 0
      <4>1. rendered'.age = 0
        BY <1>5, <1>11, <2>1, <2>2, <2>4, <3>1, <3>2
      <4> QED BY <1>6, <2>4, <4>1
    <3>3. CASE sbr.useFrameSlot = 1
      <4>1. Carried(sbr, 0)
        BY <1>5, <1>11, <2>1, <2>2, <2>4, <3>1, <3>3
      <4>2. ~Carried(sbr, 0)
        BY <1>1, <2>1, <2>4, <3>3 DEF Paired
      <4> QED BY <4>1, <4>2
    <3> QED BY <1>8, <3>2, <3>3
  <2> QED BY <2>3, <2>4
<1>16. SbrRecovers'
  <2> SUFFICES ASSUME headers' = 2 PROVE rendered'.mode = "Decoded"
    BY DEF SbrRecovers
  <2>1. headers >= 1 /\ HasHeader(p) /\ ~sbr.forceReset
    BY <1>1, <1>9 DEF AtRest
  <2>2. CASE method = "Inter"
    <3>1. Carried(sbr, o)
      BY <1>1, <2>1, <2>2 DEF Headed
    <3> QED BY <1>4, <1>5, <1>10, <2>1, <2>2, <3>1
  <2>3. CASE method # "Inter"
    <3>1. sbr.useFrameSlot = 0
      BY <1>1, <2>1, <2>3 DEF Headed
    <3> QED BY <1>4, <1>5, <1>11, <2>1, <2>3, <3>1
  <2> QED BY <2>2, <2>3
<1> QED BY <1>7, <1>12, <1>13, <1>14, <1>15, <1>16 DEF CallsInv

LEMMA DecodeGoodCalls ==
  ASSUME FramesIInv, FramesIInv', CallsInv, NEW p \in Payload \cup {NoPayload}, DecodeGood(p)
  PROVE  CallsInv'
<1> DEFINE s == Parsed2(p)
<1>1. IInv /\ AtRest
  BY DEF CallsInv
<1>2. /\ Core(TRUE, LongFrame) /\ ApplySbr(s, TRUE)
      /\ headers' = IF HasHeader(p) /\ Shown THEN Upto(2, headers) ELSE 0
      /\ steady' = IF p = NoPayload THEN 0 ELSE Upto(2, steady)
  BY DEF DecodeGood
<1>3. SoundSbr(s) /\ s.numDelayFrames = sbr.numDelayFrames /\ ~s.flush
  BY <1>1, ParsedSlots
<1>4. CASE ~Shown
  <2>1. headers' = 0
    BY <1>2, <1>4
  <2> HIDE DEF s
  <2> QED BY <1>1, <1>2, <1>3, <1>4, <2>1, LostCalls
<1>5. CASE Shown /\ p \in Payload
  BY <1>5, ShownCalls
<1>6. CASE Shown /\ p = NoPayload
  <2>1. steady' = 0
    BY <1>2, <1>6
  <2>2. headers' = 0
    <3>1. ~HasHeader(p)
      BY <1>6 DEF HasHeader, NoPayload
    <3> QED BY <1>2, <3>1
  <2>3. ~sbr'.flush /\ ~sbr'.forceReset
    BY <1>2, <1>3, AppliedFrame
  <2>4. IInv'
    BY <1>1, <1>2, LongFrames, CoreKeeps
  <2>5. Paired' /\ Headed' /\ AtRest' /\ InStep' /\ SbrRecovers'
    BY <2>1, <2>2, <2>3 DEF Paired, Headed, AtRest, InStep, SbrRecovers
  <2> QED BY <2>4, <2>5 DEF CallsInv
<1> QED BY <1>4, <1>5, <1>6

LEMMA DecodeBadCalls ==
  ASSUME FramesIInv, FramesIInv', CallsInv, NEW p \in Payload \cup {NoPayload}, DecodeBad(p)
  PROVE  CallsInv'
<1> DEFINE s == Parsed2(p)
<1>1. IInv /\ AtRest
  BY DEF CallsInv
<1>2. Core(FALSE, LongFrame) /\ ApplySbr(s, FALSE) /\ headers' = 0
  BY DEF DecodeBad
<1>3. SoundSbr(s) /\ s.numDelayFrames = sbr.numDelayFrames /\ ~s.flush
  BY <1>1, ParsedSlots
<1> HIDE DEF s
<1> QED BY <1>1, <1>2, <1>3, LostCalls

LEMMA ConcealCalls ==
  ASSUME FramesIInv, FramesIInv', CallsInv, Conceal
  PROVE  CallsInv'
<1> DEFINE s == AgedData(sbr)
<1>1. IInv /\ AtRest /\ SoundSbr(sbr)
  BY SbrTyped DEF CallsInv
<1>2. Core(FALSE, LongFrame) /\ ApplySbr(s, FALSE) /\ headers' = 0
  BY DEF Conceal
<1>3. SoundSbr(s) /\ s.numDelayFrames = sbr.numDelayFrames /\ ~s.flush
  BY <1>1, AgedSound, AgesData DEF AtRest, SameFrames
<1> HIDE DEF s
<1> QED BY <1>1, <1>2, <1>3, LostCalls

\* A flush renders the delayed frame, and leaves silence behind it.
LEMMA FlushCalls ==
  ASSUME FramesIInv, FramesIInv', CallsInv, FlushFrame
  PROVE  CallsInv'
<1> DEFINE cleared == [LongFrame EXCEPT !.cleared = TRUE]
           a == AgedData(sbr)
           t == [a EXCEPT !.numDelayFrames = delays.bsDelay, !.flush = TRUE]
           ok == Shown
           r == Apply(t, ok)
           q == Prepared(t, ok)
           o == Other(sbr)
<1>1. IInv /\ Paired /\ AtRest /\ SoundSbr(sbr) /\ o \in Slot
  BY SbrTyped DEF CallsInv
<1>2. /\ Core(TRUE, cleared) /\ sbr' = Interrupted(r.sbr) /\ rendered' = r.rendered
      /\ steady' = Upto(2, steady) /\ headers' = 0 /\ method' = method
  BY DEF FlushFrame, Ended
<1>3. IInv'
  BY <1>1, <1>2, LongFrames, CoreKeeps
<1>4. ok \in BOOLEAN /\ (ok <=> Shown)
  BY DEF Shown
<1>5. SoundSbr(t) /\ t.numDelayFrames = sbr.numDelayFrames
  <2>1. SoundSbr(a) /\ delays.bsDelay \in 0..1 /\ delays.bsDelay = sbr.numDelayFrames
    BY <1>1, AgedSound, DelaysKnown
  <2> HIDE DEF a
  <2> QED BY <2>1, FlushingSound
<1>6. /\ t.flush /\ t.useFrameSlot = sbr.useFrameSlot
      /\ \A k \in Slot : (Carried(t, k) <=> Carried(sbr, k))
                         /\ t.data[k].age = LaterAge(sbr.data[k].age)
  <2> DEFINE d == delays.bsDelay
             yes == TRUE
             b == [a EXCEPT !.numDelayFrames = d, !.flush = yes]
  <2>1. /\ SameFrames(sbr, a) /\ \A k \in Slot : a.data[k].age = LaterAge(sbr.data[k].age)
        /\ a \in SbrDecoder
    BY <1>1, AgesData, AgedSound DEF SoundSbr
  <2>2. yes
    OBVIOUS
  <2> HIDE DEF a, d, yes
  <2>3. /\ b.flush = yes /\ b.useFrameSlot = a.useFrameSlot /\ b.data = a.data
        /\ b.header = a.header /\ b.useHeaderSlot = a.useHeaderSlot
        /\ b.frameErrorFlag = a.frameErrorFlag
    BY <2>1 DEF SbrDecoder
  <2>4. t = b
    BY DEF d, yes
  <2> HIDE DEF b, t
  <2>5. t.flush /\ t.useFrameSlot = sbr.useFrameSlot
    BY <2>1, <2>2, <2>3, <2>4 DEF SameFrames
  <2>6. \A k \in Slot : (Carried(t, k) <=> Carried(sbr, k))
                         /\ t.data[k].age = LaterAge(sbr.data[k].age)
    BY <2>1, <2>3, <2>4 DEF SameFrames, Carried
  <2> QED BY <2>5, <2>6
<1> HIDE DEF t, ok
<1>7. \/ \A k \in Slot : ~Carried(q, k)
      \/ /\ t.numDelayFrames = 1 /\ ok
         /\ q.useFrameSlot = Other(t) /\ q.data = t.data
         /\ \A k \in Slot : Carried(q, k) <=> Carried(t, k)
  BY <1>4, <1>5, <1>6, PreparesFlush
<1>8. /\ r.sbr.useFrameSlot = q.useFrameSlot /\ r.sbr.data = q.data
      /\ ~r.sbr.flush /\ ~r.sbr.forceReset
      /\ \A k \in Slot : Carried(r.sbr, k) <=> Carried(q, k)
      /\ r.rendered.mode = "Decoded" <=> Carried(q, q.useFrameSlot)
      /\ r.rendered.mode = "Decoded" => r.rendered.age = q.data[q.useFrameSlot].age
  BY <1>4, <1>5, AppliesSlot
<1>9. SoundSbr(r.sbr) /\ SoundSbr(q)
  BY <1>4, <1>5, ApplySbrSound, PreparedSound
<1> HIDE DEF r, q
<1>10. /\ sbr'.useFrameSlot = r.sbr.useFrameSlot /\ sbr'.data = r.sbr.data
       /\ ~sbr'.flush /\ ~sbr'.forceReset
       /\ \A k \in Slot : Carried(sbr', k) => Carried(r.sbr, k)
  BY <1>2, <1>8, <1>9, InterruptsSlot
<1>11. q.useFrameSlot \in Slot /\ Other(sbr') \in Slot
  BY <1>9, Fields, SbrTypedNext DEF SoundSbr
<1>12. CASE \A k \in Slot : ~Carried(q, k)
  <2>1. \A k \in Slot : ~Carried(sbr', k)
    BY <1>8, <1>10, <1>12
  <2>2. rendered'.mode # "Decoded"
    BY <1>2, <1>8, <1>11, <1>12
  <2> QED BY <1>2, <1>3, <1>10, <1>11, <2>1, <2>2, NothingDecoded
<1>13. CASE /\ t.numDelayFrames = 1 /\ ok
            /\ q.useFrameSlot = Other(t) /\ q.data = t.data
            /\ \A k \in Slot : Carried(q, k) <=> Carried(t, k)
  <2>1. method = "Inter" /\ Shown
    BY <1>4, <1>5, <1>13, MethodDelay
  <2>2. /\ info'.prevFrameOk[1] /\ info'.spectrum.from = {}
        /\ info.prevFrameOk[1] => out'.spectrum.from = Ages(info.spectrum)
    BY <1>1, <1>2, <2>1, LongFrames, CoreShows
  <2>3. q.useFrameSlot = o
    BY <1>6, <1>13 DEF Other
  <2>4. Paired'
    BY <1>2, <2>1, <2>2 DEF Paired
  <2>5. Headed' /\ AtRest' /\ SbrRecovers'
    BY <1>2, <1>10 DEF Headed, AtRest, SbrRecovers
  <2>6. InStep'
    <3> SUFFICES ASSUME rendered'.mode = "Decoded", steady' = 2
                 PROVE  out'.spectrum.from \subseteq {rendered'.age}
      BY DEF InStep
    <3>1. steady >= 1
      BY <1>2 DEF FramesIInv, FramesTypeOK, Upto
    <3>2. Carried(sbr, o) /\ rendered'.age = LaterAge(sbr.data[o].age)
      BY <1>1, <1>2, <1>6, <1>8, <1>13, <2>3
    <3>3. info.prevFrameOk[1] /\ info.spectrum.from \subseteq {sbr.data[o].age}
      BY <1>1, <2>1, <3>1, <3>2 DEF Paired
    <3>4. info.spectrum \in Spectrum
      BY <1>1 DEF IInv, TypeOK, Info
    <3> HIDE DEF o
    <3>5. Ages(info.spectrum) \subseteq {LaterAge(sbr.data[o].age)}
      BY <3>3, <3>4, AgesAlike
    <3> QED BY <2>2, <3>2, <3>3, <3>5
  <2> QED BY <1>3, <2>4, <2>5, <2>6 DEF CallsInv
<1> QED BY <1>7, <1>12, <1>13

\* setConcealMethod changes nothing of the SBR decoder but its delay.
LEMMA SetsDelay ==
  ASSUME NEW s \in SbrDecoder, NEW d, NEW m \in Methods \cup {"Unknown"}, NEW c,
         method \in Methods
  PROVE  LET r == SetsMethod(m, s, d, c)
         IN  /\ r.method \in Methods
             /\ r.sbr.useFrameSlot = s.useFrameSlot /\ r.sbr.data = s.data
             /\ r.sbr.flush = s.flush /\ r.sbr.forceReset = s.forceReset
             /\ \A k \in Slot : Carried(r.sbr, k) <=> Carried(s, k)
<1> DEFINE r == SetsMethod(m, s, d, c)
<1>1. \A x : LET t == [s EXCEPT !.numDelayFrames = x]
             IN  /\ t.useFrameSlot = s.useFrameSlot /\ t.data = s.data
                 /\ t.flush = s.flush /\ t.forceReset = s.forceReset
                 /\ \A k \in Slot : Carried(t, k) <=> Carried(s, k)
  <2> TAKE x
  <2> DEFINE t == [s EXCEPT !.numDelayFrames = x]
  <2>1. /\ t.useFrameSlot = s.useFrameSlot /\ t.data = s.data
        /\ t.flush = s.flush /\ t.forceReset = s.forceReset /\ t.header = s.header
        /\ t.useHeaderSlot = s.useHeaderSlot /\ t.frameErrorFlag = s.frameErrorFlag
    BY DEF SbrDecoder
  <2> HIDE DEF t
  <2>2. \A k \in Slot : Carried(t, k) <=> Carried(s, k)
    BY <2>1 DEF Carried
  <2> QED BY <2>1, <2>2 DEF t
<1>2. PICK x : r.sbr = [s EXCEPT !.numDelayFrames = x]
  <2>1. CASE c = "USAC" /\ m \notin {"Mute", "Noise"}
    <3>1. r.sbr = [s EXCEPT !.numDelayFrames = 0]
      BY <2>1 DEF SetsMethod
    <3> QED BY <3>1
  <2>2. CASE c # "USAC" /\ m = "Unknown"
    <3>1. r.sbr = [s EXCEPT !.numDelayFrames = GetDelay(method)]
      BY <2>2 DEF SetsMethod
    <3> QED BY <3>1
  <2>3. CASE ~(c = "USAC" /\ m \notin {"Mute", "Noise"}) /\ ~(c # "USAC" /\ m = "Unknown")
    <3>1. r.sbr = [s EXCEPT !.numDelayFrames = GetDelay(m)]
      BY <2>3 DEF SetsMethod
    <3> QED BY <3>1
  <2> QED BY <2>1, <2>2, <2>3
<1>3. r.method \in Methods
  <2>1. CASE c = "USAC" /\ m \notin {"Mute", "Noise"}
    <3>1. r.method = method
      BY <2>1 DEF SetsMethod
    <3> QED BY <3>1
  <2>2. CASE c # "USAC" /\ m = "Unknown"
    <3>1. r.method = method
      BY <2>2 DEF SetsMethod
    <3> QED BY <3>1
  <2>3. CASE ~(c = "USAC" /\ m \notin {"Mute", "Noise"}) /\ ~(c # "USAC" /\ m = "Unknown")
    <3>1. r.method = m
      BY <2>3 DEF SetsMethod
    <3>2. m # "Unknown"
      BY <2>3
    <3> QED BY <3>1, <3>2
  <2> QED BY <2>1, <2>2, <2>3
<1> HIDE DEF r
<1>4. /\ r.sbr.useFrameSlot = s.useFrameSlot /\ r.sbr.data = s.data
      /\ r.sbr.flush = s.flush /\ r.sbr.forceReset = s.forceReset
      /\ \A k \in Slot : Carried(r.sbr, k) <=> Carried(s, k)
  BY <1>1, <1>2
<1> QED BY <1>3, <1>4 DEF r

LEMMA NewInfo == InitChannelData("Ok") \in Info /\ Bounded(InitChannelData("Ok"))
<1>1. /\ 0 \in (-1)..NumFactors /\ 0 \in Nat /\ 1 \in 1..NumShort /\ Full \in 0..Full
  BY ConcealAssumption
<1>2. Silence \in Spectrum /\ NoOffsets \in Offsets
  BY DEF Silence, Spectrum, NoOffsets, Offsets
<1> QED BY <1>1, <1>2 DEF InitChannelData, Info, Bounded, States, WindowSequences

LEMMA ConfigureCalls ==
  ASSUME FramesIInv, CallsInv, NEW c \in Codecs, Configure(c)
  PROVE  CallsInv'
<1> DEFINE new == NewDecoder(sbr.numDelayFrames)
           set == SetsMethod("Noise", new, delays, c)
           r == IF RevertsInter(c) THEN set
                ELSE [method |-> method, sbr |-> new, delays |-> delays]
<1>1. IInv /\ method \in Methods
  BY DEF CallsInv, IInv, TypeOK
<1>2. /\ method' = r.method /\ sbr' = r.sbr
      /\ info' = InitChannelData("Ok") /\ Forgotten /\ UNCHANGED switched
      /\ out' = [spectrum |-> Silence, sequence |-> "Long"] /\ noise' = FALSE
      /\ rendered' = [mode |-> "Upsampled"] /\ steady' = 0 /\ headers' = 0
  BY DEF Configure
<1>3. new \in SbrDecoder /\ ~new.flush /\ ~new.forceReset
  <2>1. sbr.numDelayFrames \in 0..1
    BY DelaysKnown
  <2>2. new \in SbrDecoder
    BY <2>1, NewSound DEF SoundSbr
  <2> QED BY <2>2 DEF NewDecoder
<1> HIDE DEF new
<1>4. method' \in Methods /\ ~sbr'.flush /\ ~sbr'.forceReset
  <2>1. CASE RevertsInter(c)
    <3>1. "Noise" \in Methods
      BY FramesAssumption
    <3>2. set.method \in Methods /\ ~set.sbr.flush /\ ~set.sbr.forceReset
      BY <1>1, <1>3, <3>1, SetsDelay
    <3>3. r = set
      BY <2>1
    <3> HIDE DEF set, r
    <3> QED BY <1>2, <3>2, <3>3
  <2>2. CASE ~RevertsInter(c)
    <3>1. r = [method |-> method, sbr |-> new, delays |-> delays]
      BY <2>2
    <3> HIDE DEF r
    <3> QED BY <1>1, <1>2, <1>3, <3>1
  <2> QED BY <2>1, <2>2
<1>5. IInv'
  <2>1. recent' \in Seq(BOOLEAN) /\ run' \in 0..LongRun
    BY <1>2, ForgottenTyped
  <2>2. Silence \in Spectrum
    BY DEF Silence, Spectrum
  <2>3. info' \in Info /\ Bounded(info)'
    <3>1. Bounded(info') = Bounded(InitChannelData("Ok"))
      BY <1>2
    <3> QED BY <1>2, <3>1, NewInfo
  <2>4. switched' \in BOOLEAN /\ noise' \in BOOLEAN
    BY <1>1, <1>2 DEF IInv, TypeOK
  <2>5. out' \in [spectrum : Spectrum, sequence : WindowSequences]
    BY <1>2, <2>2 DEF WindowSequences
  <2> QED BY <1>4, <2>1, <2>3, <2>4, <2>5 DEF IInv, TypeOK
<1>6. Paired' /\ Headed' /\ AtRest' /\ InStep' /\ SbrRecovers'
  BY <1>2, <1>4 DEF Paired, Headed, AtRest, InStep, SbrRecovers
<1> QED BY <1>5, <1>6 DEF CallsInv

LEMMA SetConcealMethodCalls ==
  ASSUME FramesIInv, CallsInv, NEW m \in ConcealMethodUser, SetConcealMethod(m)
  PROVE  CallsInv'
<1> DEFINE r == SetsMethod(m, sbr, delays, codec)
<1>1. IInv /\ method \in Methods /\ Paired /\ Headed /\ AtRest /\ InStep /\ SbrRecovers
  BY DEF CallsInv, IInv, TypeOK
<1>2. /\ method' = r.method /\ sbr' = r.sbr
      /\ steady' = IF r.method = method THEN steady ELSE 0
      /\ headers' = IF r.method = method THEN headers ELSE 0
      /\ UNCHANGED <<info, out, noise, recent, run, switched, rendered>>
  BY DEF SetConcealMethod
<1>3. m \in Methods \cup {"Unknown"} /\ sbr \in SbrDecoder /\ Other(sbr) \in Slot /\ 0 \in Slot
  BY FramesAssumption, SbrTyped, SlotIsBit DEF SoundSbr
<1>4. /\ r.method \in Methods
      /\ r.sbr.useFrameSlot = sbr.useFrameSlot /\ r.sbr.data = sbr.data
      /\ r.sbr.flush = sbr.flush /\ r.sbr.forceReset = sbr.forceReset
      /\ \A k \in Slot : Carried(r.sbr, k) <=> Carried(sbr, k)
  BY <1>1, <1>3, SetsDelay
<1> HIDE DEF r
<1>5. Other(sbr') = Other(sbr)
  BY <1>2, <1>4 DEF Other
<1>6. IInv'
  BY <1>1, <1>2, <1>4 DEF IInv, TypeOK
<1>7. CASE r.method = method
  <2>1. Paired' /\ Headed'
    BY <1>1, <1>2, <1>3, <1>4, <1>5, <1>7 DEF Paired, Headed
  <2>2. AtRest' /\ InStep' /\ SbrRecovers'
    BY <1>1, <1>2, <1>4, <1>7 DEF AtRest, InStep, SbrRecovers
  <2> QED BY <1>6, <2>1, <2>2 DEF CallsInv
<1>8. CASE r.method # method
  <2>1. Paired' /\ Headed' /\ AtRest' /\ InStep' /\ SbrRecovers'
    BY <1>1, <1>2, <1>4, <1>8 DEF Paired, Headed, AtRest, InStep, SbrRecovers
  <2> QED BY <1>6, <2>1 DEF CallsInv
<1> QED BY <1>7, <1>8

LEMMA BeginCalls ==
  ASSUME FramesIInv, CallsInv, Begin
  PROVE  CallsInv'
<1>1. /\ IInv /\ Paired /\ Headed /\ AtRest /\ InStep /\ SbrRecovers
      /\ SoundSbr(sbr) /\ sbr \in SbrDecoder
  BY SbrTyped DEF CallsInv, SoundSbr
<1>2. UNCHANGED rendered /\ call' \in {"Interrupted", "Cleared"}
  BY DEF Begin
<1>3. CASE call' = "Interrupted"
  <2>1. sbr' = Interrupted(sbr) /\ UNCHANGED <<vars, steady, headers>>
    BY <1>3 DEF Begin
  <2>2. /\ sbr'.useFrameSlot = sbr.useFrameSlot /\ sbr'.data = sbr.data
        /\ sbr'.flush = sbr.flush /\ sbr'.forceReset = sbr.forceReset
        /\ \A k \in Slot : Carried(sbr', k) => Carried(sbr, k)
        /\ Carried(sbr, Other(sbr)) => Carried(sbr', Other(sbr))
    BY <1>1, <2>1, InterruptsSlot
  <2>3. Other(sbr') = Other(sbr) /\ Other(sbr) \in Slot /\ 0 \in Slot
    BY <2>2, SbrTyped, SlotIsBit DEF Other
  <2>4. IInv'
    BY <1>1, <2>1 DEF IInv, TypeOK, vars
  <2>5. Paired' /\ Headed'
    BY <1>1, <2>1, <2>2, <2>3 DEF Paired, Headed, vars
  <2>6. AtRest' /\ InStep' /\ SbrRecovers'
    BY <1>1, <1>2, <2>1, <2>2 DEF AtRest, InStep, SbrRecovers, vars
  <2> QED BY <2>4, <2>5, <2>6 DEF CallsInv
<1>4. CASE call' = "Cleared"
  <2>1. /\ sbr' = [sbr EXCEPT !.forceReset = TRUE]
        /\ ClearHistory /\ steady' = 0 /\ headers' = 0
    BY <1>4 DEF Begin
  <2>2. IInv'
    BY <1>1, <2>1, ClearKeepsInv
  <2>3. ~sbr'.flush
    BY <1>1, <2>1 DEF SbrDecoder, AtRest
  <2>4. Paired' /\ Headed' /\ AtRest' /\ InStep' /\ SbrRecovers'
    BY <2>1, <2>3 DEF Paired, Headed, AtRest, InStep, SbrRecovers
  <2> QED BY <2>2, <2>4 DEF CallsInv
<1> QED BY <1>2, <1>3, <1>4

LEMMA StutterCalls ==
  ASSUME CallsInv, NoOutput \/ UNCHANGED frameVars
  PROVE  CallsInv'
<1>1. UNCHANGED <<method, info, out, noise, recent, run, switched, sbr, rendered, steady, headers>>
  BY DEF NoOutput, frameVars, vars
<1>2. IInv'
  BY <1>1 DEF CallsInv, IInv, TypeOK
<1>3. Paired' /\ Headed' /\ AtRest' /\ InStep' /\ SbrRecovers'
  BY <1>1 DEF CallsInv, Paired, Headed, AtRest, InStep, SbrRecovers
<1> QED BY <1>2, <1>3 DEF CallsInv

LEMMA InitCalls == FramesInit => CallsInv
<1> SUFFICES ASSUME FramesInit PROVE CallsInv
  OBVIOUS
<1>1. IInv
  BY InitInv DEF FramesInit
<1>2. steady = 0 /\ headers = 0 /\ ~sbr.flush /\ ~sbr.forceReset
  BY DEF FramesInit, NewDecoder
<1>3. Paired /\ Headed /\ AtRest /\ InStep /\ SbrRecovers
  BY <1>2 DEF Paired, Headed, AtRest, InStep, SbrRecovers
<1> QED BY <1>1, <1>3 DEF CallsInv

LEMMA NextCalls == (FramesIInv /\ FramesIInv' /\ CallsInv /\ [FramesNext]_frameVars) => CallsInv'
<1> SUFFICES ASSUME FramesIInv, FramesIInv', CallsInv, [FramesNext]_frameVars PROVE CallsInv'
  OBVIOUS
<1>1. CASE \E c \in Codecs : Configure(c)
  BY <1>1, ConfigureCalls
<1>2. CASE \E m \in ConcealMethodUser : SetConcealMethod(m)
  BY <1>2, SetConcealMethodCalls
<1>3. CASE Begin
  BY <1>3, BeginCalls
<1>4. CASE \E p \in Payload \cup {NoPayload} : DecodeGood(p) \/ DecodeBad(p)
  BY <1>4, DecodeGoodCalls, DecodeBadCalls
<1>5. CASE Conceal
  BY <1>5, ConcealCalls
<1>6. CASE FlushFrame
  BY <1>6, FlushCalls
<1>7. CASE NoOutput \/ UNCHANGED frameVars
  BY <1>7, StutterCalls
<1> QED BY <1>1, <1>2, <1>3, <1>4, <1>5, <1>6, <1>7 DEF FramesNext

-----------------------------------------------------------------------------
THEOREM CallsInvariance == FramesSpec => []CallsInv
BY InvariantHolds, InitCalls, NextCalls, PTL DEF FramesSpec

\* SBR data are applied to the frame of the core they came with, two calls after
\* anything that broke the sequence: sbrDecoder_Parse and the spectrum buffer of the
\* concealment delay by the same number of frames, through losses, interruptions,
\* flushes and changes of the method.
THEOREM SbrStaysInStep == FramesSpec => []InStep
<1>1. CallsInv => InStep
  BY DEF CallsInv
<1> QED BY <1>1, CallsInvariance, PTL

\* The second frame in a row with an SBR header is decoded with SBR, whatever the decoder
\* went through before.
THEOREM HeadersBringSbrBack == FramesSpec => []SbrRecovers
<1>1. CallsInv => SbrRecovers
  BY DEF CallsInv
<1> QED BY <1>1, CallsInvariance, PTL
=============================================================================
