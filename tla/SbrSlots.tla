------------------------------ MODULE SbrSlots ------------------------------
(***************************************************************************)
(* One element of the SBR decoder (libSBRdec/src/sbrdecoder.cpp): two slots *)
(* for what is parsed of a frame, two headers, and the header every slot    *)
(* goes with.  With a delay of one frame, sbrDecoder_Parse fills a slot     *)
(* while sbrDecoder_Apply renders the other one.  A header is told by its   *)
(* settings, the data of a frame by the header they were parsed with and by *)
(* how many calls ago that was.  Parametric stereo, the envelope decoding   *)
(* and the filter banks are not modelled.                                   *)
(***************************************************************************)
EXTENDS Integers

CONSTANTS
  Settings,  \* settings a header may bring
  OldestData \* bound: data older than this are not told apart

\* Settings of a header are not mistaken for the absence of any.
ASSUME SettingsAssumption == Settings \cap {"Default", "None", "Invalid"} = {}

Slot == 0..1
SyncState == {"NotInitialized", "Upsampling", "Header", "Active"}

\* SBR_HEADER_DATA: reset and update are the bits of status.  Default are the
\* settings of initHeaderData, Invalid those no frequency tables are made from.
SbrHeader ==
  [syncState : SyncState, settings : Settings \cup {"Default", "Invalid"},
   reset : BOOLEAN, update : BOOLEAN, frameErrorFlag : BOOLEAN]

\* SBR_FRAME_DATA.  The age is history.
FrameData == [age : 0..OldestData, settings : Settings \cup {"Default"}]

\* What an SBR payload holds: a header or none, and data that can be read, are
\* corrupt, or fail the CRC.
Payload == [header : Settings \cup {"None", "Invalid"}, data : {"Ok", "Corrupt", "Crc"}]

SbrDecoder ==
  [numDelayFrames : 0..1, useFrameSlot : Slot, useHeaderSlot : [Slot -> Slot],
   frameErrorFlag : [Slot -> BOOLEAN], header : [Slot -> SbrHeader], data : [Slot -> FrameData],
   forceReset : BOOLEAN, flush : BOOLEAN, numFlushedFrames : 0..2]

Synced(h) == h.syncState \in {"Header", "Active"}
ToUpsampling(h) == IF Synced(h) THEN [h EXCEPT !.syncState = "Upsampling"] ELSE h

-----------------------------------------------------------------------------
\* initHeaderData with setDefaultHdr
DefaultHeader ==
  [syncState |-> "NotInitialized", settings |-> "Default", reset |-> FALSE, update |-> FALSE,
   frameErrorFlag |-> FALSE]

\* sbrDecoder_ResetElement
ResetElement(s) ==
  [s EXCEPT !.header = [k \in Slot |-> IF s.forceReset \/ @[k].syncState = "NotInitialized"
                                       THEN DefaultHeader ELSE ToUpsampling(@[k])],
            !.useFrameSlot = 0, !.useHeaderSlot = [k \in Slot |-> k]]

\* sbrDecoder_InitElement for every frame of one configuration
InitElement(s) ==
  IF s.forceReset
  THEN ResetElement([s EXCEPT !.frameErrorFlag = [k \in Slot |-> FALSE]])
  ELSE s

\* sbrDecoder_InitElement for the first time
NewDecoder(delay) ==
  [numDelayFrames |-> delay, useFrameSlot |-> 0, useHeaderSlot |-> [k \in Slot |-> k],
   frameErrorFlag |-> [k \in Slot |-> FALSE], header |-> [k \in Slot |-> DefaultHeader],
   data |-> [k \in Slot |-> [age |-> OldestData, settings |-> "Default"]],
   forceReset |-> FALSE, flush |-> FALSE, numFlushedFrames |-> 0]

\* Faulty: the slot of a header that waits to be applied is taken for free.
HeaderSlotShared(s, current) == s.useHeaderSlot[current]

\* getHeaderSlot: another header than the one this slot has, if that is also
\* another slot's.
HeaderSlot(s, current) ==
  LET slot == s.useHeaderSlot[current]
      occupied == \E k \in Slot \ {slot} : s.useHeaderSlot[k] = slot
      free == {h \in Slot : \A k \in Slot : s.useHeaderSlot[k] # h}
  IN  IF occupied /\ free # {} THEN CHOOSE h \in free : \A g \in free : h <= g ELSE slot

\* sbrDecoder_SetParam(SBR_BS_INTERRUPTION)
Interrupted(s) ==
  LET slot == HeaderSlot(s, s.useFrameSlot)
  IN  IF s.header[slot].syncState = "NotInitialized" THEN s
      ELSE [s EXCEPT !.header[slot].syncState = "Upsampling", !.header[slot].update = TRUE]

Advance(s) == [s EXCEPT !.useFrameSlot = (@ + 1) % (s.numDelayFrames + 1)]

-----------------------------------------------------------------------------
\* A header being parsed, and what HEADER_STATUS becomes.
Parsing(h, status) == [header |-> h, status |-> status]

\* Faulty: the header that is in use already does not end an interruption.
ReadHeaderSame(h, settings) ==
  CASE settings = "None" -> Parsing(h, "NotPresent")
    [] settings # "None" /\ h.settings = settings -> Parsing(h, "Ok")
    [] OTHER -> Parsing([h EXCEPT !.settings = settings, !.syncState = "Header", !.reset = TRUE],
                        "Reset")

\* sbrGetHeaderData and sbrDecoder_HeaderUpdate: settings that are new, or the
\* first ones, reset the element; no tables can be made from invalid ones.
ReadHeader(h, settings) ==
  LET fresh == ~Synced(h) \/ h.settings # settings
      taken == [h EXCEPT !.settings = settings]
  IN  CASE settings = "None" -> Parsing(h, "NotPresent")
        [] settings # "None" /\ ~fresh -> Parsing(h, "Ok")
        [] settings = "Invalid" /\ fresh -> Parsing([taken EXCEPT !.syncState = "NotInitialized"], "Error")
        [] OTHER -> Parsing([taken EXCEPT !.syncState = "Header", !.reset = TRUE], "Reset")

\* sbrDecoder_Parse for a payload that is not empty.  An update that came from
\* elsewhere counts as a header; otherwise the last one goes on in this slot.
Last(s) ==
  s.useHeaderSlot[IF s.useFrameSlot > 0 THEN s.useFrameSlot - 1 ELSE s.numDelayFrames]

ContinuedHeader(s) ==
  LET this == HeaderSlot(s, s.useFrameSlot)
  IN  IF s.header[this].update THEN Parsing([s.header[this] EXCEPT !.update = FALSE], "Ok")
      ELSE Parsing(s.header[IF this # Last(s) THEN Last(s) ELSE this], "NotPresent")

ParsedHeader(s, p) ==
  LET before == ContinuedHeader(s)
      after == ReadHeader(before.header, p.header)
  IN  IF after.status = "NotPresent" THEN before ELSE after

\* Data are read if there is a header to read them with.
ReadsData(h, status) == Synced(h) /\ status # "Error"

\* A header from a frame that fails the CRC is not trusted.
Checked(h, status, crc) ==
  IF crc /\ status # "NotPresent"
  THEN Parsing([h EXCEPT !.syncState = "NotInitialized"], "Error") ELSE Parsing(h, status)

\* The header a parsed frame goes with.
HeaderOf(s, use) == IF use THEN Last(s) ELSE HeaderSlot(s, s.useFrameSlot)

Parse(s, p) ==
  LET use == s.useFrameSlot
      this == HeaderSlot(s, use)
      read == ParsedHeader(s, p)
      data == ReadsData(read.header, read.status)
      fine == read.status # "Error" /\ (data => p.data = "Ok")
      end == Checked(read.header, read.status, data /\ p.data = "Crc")
      old == \/ end.status \in {"NotPresent", "Error"}
             \/ end.status = "Reset" /\ ~fine
             \/ this # Last(s) /\ end.header = s.header[Last(s)]
  IN  Advance([s EXCEPT !.header[this] = end.header, !.frameErrorFlag[use] = ~fine,
                        !.data[use] = IF data /\ fine
                                      THEN [age |-> 0, settings |-> read.header.settings] ELSE @,
                        !.useHeaderSlot[use] = HeaderOf(s, old)])

-----------------------------------------------------------------------------
\* Faulty: a flush repeats the frame that was rendered last.
FlushedInPlace(s) ==
  IF ~s.flush THEN s
  ELSE IF s.numFlushedFrames > s.numDelayFrames
       THEN [s EXCEPT !.header = [k \in Slot |-> ToUpsampling(@[k])]]
       ELSE s

\* sbrDecoder_Apply: what becomes of the decoder, and what is rendered of it.
\* After all delayed frames are flushed there is no payload to render.
Flushed(s) ==
  IF ~s.flush THEN s
  ELSE IF s.numFlushedFrames > s.numDelayFrames
       THEN [s EXCEPT !.header = [k \in Slot |-> ToUpsampling(@[k])]]
       ELSE Advance(s)

\* sbrDecoder_DecodeElement on the header of the slot.  A header that never came
\* is replaced by the default one, which only upsamples.
Resets(h) ==
  IF h.syncState = "NotInitialized"
  THEN [DefaultHeader EXCEPT !.syncState = "Upsampling", !.reset = TRUE]
  ELSE [h EXCEPT !.reset = @ /\ ~ (h.syncState = "Active" \/
                                   (h.syncState = "Header" /\ ~h.frameErrorFlag))]
Decodes(h) ==
  IF h.syncState = "Header" /\ ~h.frameErrorFlag THEN [h EXCEPT !.syncState = "Active"] ELSE h

Failed(s) == [s EXCEPT !.frameErrorFlag = [k \in Slot |-> TRUE]]

Rendered(h, data) ==
  IF h.syncState # "Active" THEN [mode |-> "Upsampled"]
  ELSE IF h.frameErrorFlag THEN [mode |-> "Concealed"]
  ELSE [mode |-> "Decoded", age |-> data.age, parsed |-> data.settings, applied |-> h.settings]

Rendering ==
  [mode : {"Upsampled", "Concealed"}]
    \cup [mode : {"Decoded"}, age : 0..OldestData, parsed : Settings, applied : Settings]

Apply(s, coreDecodedOk) ==
  LET counted == [s EXCEPT !.numFlushedFrames = IF s.flush THEN IF @ < 2 THEN @ + 1 ELSE @ ELSE 0]
      t == Flushed(IF coreDecodedOk THEN counted ELSE Failed(counted))
      slot == t.useHeaderSlot[t.useFrameSlot]
      flagged == [t.header[slot] EXCEPT !.frameErrorFlag = t.frameErrorFlag[t.useFrameSlot]]
      h == Decodes(Resets(flagged))
  IN  [sbr |-> [t EXCEPT !.header[slot] = h, !.forceReset = FALSE, !.flush = FALSE],
       rendered |-> Rendered(h, t.data[t.useFrameSlot])]

\* A call later.
AgedData(s) ==
  [s EXCEPT !.data = [k \in Slot |-> [s.data[k] EXCEPT !.age = IF @ < OldestData THEN @ + 1 ELSE @]]]
=============================================================================
