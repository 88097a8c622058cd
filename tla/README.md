# Specifications of the fdk-aac codec

TLA+ models of the parts of fdk-aac whose difficulty is in their *state* and not in their
arithmetic: the bit stream ring, the transport decoder, the concealment of lost frames, the frame
slots of SBR, the change of configuration of an xHE-AAC stream, the limiter's window and delay line,
and the input buffer of the encoder. Each is model-checked with TLC. TLAPS proves the invariants of
the reader, the concealment, the transport decoder, the frames with SBR, the configuration change,
the encoder library and the limiter for every value of their constants.

Contents: [the system](#the-system), [hard behaviours](#hard-behaviours),
[modules](#modules-and-the-code), [runs](#runs), [findings](#findings), [proofs](#proofs),
[not modelled](#not-modelled), [plan](#plan).

## The system

fdk-aac is a set of single-threaded C++ libraries in `cpp/` (a decoder and an encoder), a second
implementation of the decoder in `rust/`, a separate xHE-AAC encoder in C in `xhe-aac/`, and small
command-line programs. The models follow `cpp/`. An application owns one handle per instance and
calls into it; within a call the libraries call each other and call back through function
pointers (`CSTpCallBacks`). There are no threads: what interleaves is the sequence of an
application's calls, the chunks its input comes in, and what the input holds.

| component | state it keeps | operations | used by |
| --- | --- | --- | --- |
| bit buffer, bit stream (`libFDK`: `FDK_bitbuffer.cpp`, `FDK_bitstream.h`) | a ring of bytes, bit cursor, read and write offset, count of valid bits; a 32-bit cache word in front of it | init, feed, read, push back, push forward, byte align, valid bits, write, put, fetch, reset | every parser and every writer |
| transport decoder (`libMpegTPDec`) | the bit stream, sync flags, raw data blocks left, frame position, the ADTS header or LATM demultiplexer, configurations, flush and build-up control | fill, read and end an access unit, in-band and out-of-band configuration, reset | decoder library |
| decoder library (`libAACdec/aacdecoder_lib.cpp`) | flags, flush and build-up status, user parameters, output description | open, config, fill, decode frame (normal, `CONCEAL`, `FLUSH`, `INTR`, `CLRHIST`), set parameters | applications |
| core decoder (`libAACdec`) | per channel: overlap buffers, concealment, prediction, LPC state; element table, channel counts | init/free for a configuration, decode one access unit | decoder library |
| error concealment (`libAACdec/conceal.cpp`) | per channel: fade state, counters, offsets, one stored spectrum, last window sequence, fade level | store, update state, apply a method, fade in the time domain, add comfort noise | core decoder |
| SBR decoder (`libSBRdec/sbrdecoder.cpp`) | per element: two frame slots, two headers with their sync state, which header each slot uses, error flags, delay, flush and reset flags | initialize, parse, apply, interrupt, flush, set delay | core decoder, decoder library |
| PCM utilities (`libPCMutils`) | the limiter's window of maxima and delay line; the downmix metadata ring | apply, set attack, channels and threshold, reset | decoder library |
| MPEG Surround, DRC decoders | parameter sets, gain buffers, filter states | parse, apply, set parameters | decoder library |
| encoder library (`libAACenc/aacenc_lib.cpp`) | input buffer and its fill level, zeros appended, delay, initialization flags, user parameters | encode, flush, set parameters, initialize | applications |
| encoder core, transport encoder (`libAACenc`, `libMpegTPEnc`) | bit reservoir, psychoacoustic state; bit stream writer, CRC regions, sub frame counter | encode a frame; write header, access units, end, fetch | encoder library |
| SBR, MPEG Surround encoders; arithmetic coding; DSP, CRC, QMF | signal state | numeric | the codecs |

Interactions that matter for correctness:

* `aacDecoder_Fill` copies into the transport buffer; `aacDecoder_DecodeFrame` reads it. A reader
  un-reads whatever it could not finish, and expects to find it again after the next fill.
* The transport decoder calls back into the decoder library, *while a decode call is running*, to
  build a decoder for a configuration (`cbUpdateConfig`), to free it (`cbFreeMem`) and to set its
  flush and build-up status (`cbCtrlCFGChange`). Each side keeps its own copy of that status.
* The core decoder tells every channel's concealment of every frame, good or lost; the concealment
  replaces the spectrum the channel renders, and delays it by a frame for one of its methods.
* That delay is handed on: `setConcealMethod` sets it in the SBR decoder, the DRC decoder and the
  downmix, one after another, and takes it back if one of them refuses.
* The decoder library sets the limiter's channels and sampling rate before every frame, the
  application its attack time and threshold between any two.
* The encoder library initializes its modules again inside `aacEncEncode`, after a parameter was set
  or a frame failed, with samples already in the buffer.
* An encoder writes through a bit stream and patches fields it has written before through a second
  bit stream over the same memory.

## Hard behaviours

`PROJECT.json` lists the hazards line by line. They fall into these groups:

1. *Cursors with a cache in front of them.* Three counters describe the ring and a fourth the cache
   word. Pushes, alignments, over-reads, feeds and a second writer each know some of them.
2. *Retries.* A frame or raw data block that is not complete is un-read and parsed again, after the
   buffer and the positions have moved. A frame that failed to be encoded stays in the buffer.
3. *Resynchronisation.* A damaged block ends at any bit; a header may be found inside a payload.
4. *State that outlives what it describes.* Window offsets of a frame that is no longer stored, a
   channel count of a decoder that was freed, the header of an earlier frame, a maximum outside its
   window, the zeros counted in an earlier flush.
5. *Delays that must agree.* Core, SBR data and metadata of one frame take separate ways, and losses,
   flushes and changes of the method move each of them or not.
6. *One step of several.* A configuration change is spread over a flush, a rebuild, pre-rolls and a
   build up in one call; any may fail. So may the initialization of an encoder in the middle of a
   flush.
7. *Lost input.* A lost frame is concealed; a lost announcement of a configuration must be repaired
   by its repetition.

What makes each component correct, and so what the properties say: the reader returns the bits that
were fed, in order; the writer's output is what was written; the access units read do not depend on
the chunks, nor on being asked too early; concealment keeps to its slopes, falls silent, comes back,
and never combines one frame's spectrum with another's windows; SBR data are rendered with the header
they were parsed with and the core frame they came with, and SBR comes back after errors; a
configuration change completes within its call, and what is decoded is decoded with its own
configuration; the encoder core gets every sample once and in order, and the end is reported when all
of them and the delay are through; the limiter's maximum is the maximum of what it delays, and its
delay is exact.

## Modules and the code

### BitBuffer, BitStream, BitFifo (reader)

`BitBuffer` has the functions of `FDK_bitbuffer.cpp` as operators on a record with the fields of
`FDK_BITBUF`, one bit per element of `Buffer`. `BitStream` is the state machine of a reader:
`hBitBuf`, `CacheWord` and `BitsInCache` are the code's; each action is one inline function of
`FDK_bitstream.h`. Bits are serial numbers, so "which bit is this" can be asked of every place in
the ring. `chunk` is the application's input not yet stored; `anchor` is a value of
`FDKgetValidBits` kept by a caller that aligns to it; `mark` is the position of the reader at the
last feed, the furthest a caller may push back (callers un-read within what they parsed since).

`BitFifo` is the abstract specification: a sequence of bits, a read position, and nothing else.
`BitStream!Fifo` is the refinement mapping (`Fed`, `ReadPos`), `ImplementsFifo` the refinement.

### BitStreamWriter

The writer over the same ring: `WriteBits` with its cache, `PushBackBits`, `ByteAlign`,
`FetchBuffer`, and `Patch`, the second bit stream with which `tpenc_adts.cpp` and `tpenc_latm.cpp`
overwrite a field of a header that has been written. `log` is the history of what was written and
not taken back, `fetched` that of what was handed out; `StoredInOrder` says that `log` is `fetched`,
the ring and the cache, one after the other.

### Concealment

One channel that renders with the IMDCT. `info` is `CConcealmentInfo`; a spectrum is abstracted to
the *ages* of the frames it is made of (a set: interpolation makes it of two) and to its layout. An
action is a whole frame: `CConcealment_Store`, `CConcealment_UpdateState`, the method's
`Apply` function, then `CConcealment_TDFading`. `Flush` is the frame of a call with `AACDEC_FLUSH`,
`SetMethod` is `AAC_CONCEAL_METHOD` among the methods of `Switchable`, and `ClearHistory` is
`AACDEC_CLRHIST` as it reaches the channel. `switched` remembers a change of the method since a reset:
properties that hold of a method only while it is kept are stated with it. The window loop of
`CConcealment_ApplyFadeOut` is given in closed form (`FadeSteps`, `NextOffset`); `LoopAssumption` in
`MCConcealment` compares it with the loop, step by step, for every group and offset. The fade table
of the runs is the decoder's, computed as `CConcealment_InitCommonData` does.

### SbrSlots, DecoderFrames

`SbrSlots` has one element of the SBR decoder as operators on a record with the code's fields:
`sbrDecoder_Parse` with the choice of a header slot (`HeaderSlot`), the header itself (`ReadHeader`) and what
becomes of it when the frame fails its CRC (`Checked`); `sbrDecoder_Apply` with the flush, the error flags and the
sync state; resets and interruptions. A header is told by its settings, data by the settings they
were parsed with and by their age in calls.

`DecoderFrames` composes it with `Concealment`: an action is a frame through
`aacDecoder_DecodeFrame`, which parses the payload of this frame, renders the core the concealment gives
(delayed or not) and applies SBR to it. The frames are good, with any payload or with none
(`DecodeGood`), damaged before or after the payload was parsed (`Conceal`, `DecodeBad`), or flushed
(`FlushFrame`). `Begin` is the part of a call with `AACDEC_INTR` or `AACDEC_CLRHIST` before that,
`SetConcealMethod` is `setConcealMethod` with all its reverts, `Configure` the decision of
`aacDecoder_ConfigCallback` to give up interpolation, with a new decoder. `steady`, `headers` and
`troubles` are histories: for how many calls in a row the assumptions of `InStep` and `SbrRecovers` have
held, and the bound on what is not plain decoding.

### TransportDec

The transport decoder on ADTS as the decoder library drives it. A stream is its length and the
places where an ADTS header can be read, wanted or not; positions are bits of the stream. `Fill` is
`aacDecoder_Fill` with any number of bytes, `DecodeFrame` a whole `aacDecoder_DecodeFrame`:
`transportDec_ReadAccessUnit` (with its loop over headers), the decoding of the raw data block, and
`transportDec_EndAccessUnit`. `Misread` is the number of bits by which the end of a damaged block is
missed. `DecodeInterrupted` is a call with `AACDEC_INTR` after a loss of sync; `Reset` is
`TPDEC_PARAM_RESET`. A stream with `played` is one that an application like `aac-dec.c` plays to its
end, undamaged: for these there is fairness, and no reset or interruption.

The positions of the raw data blocks in a protected header may be anything the header can hold:
`tpdec_adts.cpp:223-237` subtracts them from each other as unsigned shorts and checks nothing, and
so does the model (`Dist`). A header whose blocks lie behind each other and in their frame is
`WellPlaced`. `TransportAssumption` demands that only of frames of several blocks without CRC, whose
headers hold no positions: there `ends` is where the blocks really are. It demands of all headers
that a PCE, if there is one, ends in its frame, that `frame_length` fits its 13 bits, and that
positions are counted from behind the header. Blocks that pass their frame can take the reader
behind what is buffered. If the buffer is filled to the brim then, and the end of the frame pulls
the reader back over bits that were overwritten, there are more valid bits than the buffer holds
(`Overrun`); what would be decoded from there on is not modelled, `DecodeFrame` is disabled.

The flags are those the library sets. So buffer fullness is ignored; `MINIMIZE_DELAY`,
`EARLY_CONFIG`, `SET_BITRATE` and `BURST_PERIOD` have no caller, and the code they guard (traversal
over frames, hold-off, the estimate of lost access units) is left out. A frame is at most 8191 bytes
and the buffer 32768, so the recovery of a full buffer cannot be reached; `ReportsLossOnce` checks
that, with the recovery in the model.

### ConfigChange

The configuration change of an xHE-AAC stream, raw (as in MP4) or over LOAS. `tp` holds the fields of
the transport decoder that take part, `dec` those of the core decoder. `BeginDecode` is the part of
`aacDecoder_DecodeFrame` up to the loop (`CLRHIST`, then reading an access unit, with the LATM
multiplex configuration); every `Iterate` is one pass of the loop: parsing the pre-roll extension
with `transportDec_InBandConfig`, decoding a unit, and deciding whether to flush, go on or return.
`BeginOther` is a call with `AACDEC_CONCEAL` or `AACDEC_FLUSH`, `Configure` is
`aacDecoder_ConfigRaw`, `Lose` is an access unit that never arrives. A configuration is a name: two
of them differ in what a decoder is built of. A unit decoded with a decoder of another configuration,
or damaged, may fail or may not. Streams are what a conforming encoder sends: the configuration changes
only at an access unit that announces it. `known` and `dec.since` are histories.

Several shapes of a stream are several elements of `Scenarios`, chosen by `Init`.

### Limiter

`pcmLimiter_Apply`, one sample of all channels an action, with `SetAttack`, `SetNChannels`,
`SetThreshold` and `Reset`. The running maximum, its window `maxBuf` and the delay line are the code's;
a sample is its level in the first and its age and channel in the second, so that "which sample comes
out" can be asked. The gain, its smoothing and the scaling of the output follow from the maximum by arithmetic
and are left out; the scaling of the input changes levels (`Rescaled`). `recent` holds the levels that came in,
`since` and `steady` count samples since a reset and since a change, and `lost` says that a shorter
attack has left the maximum outside its window.

### Encoder

The encoder library for one channel of AAC, a whole `aacEncEncode` an action (`Encode(n)` with `n`
samples, or -1 to flush): the samples that are taken (`Taken`), zeros during a flush, the initialization
of whatever a parameter has invalidated (`Cleared`, `Initialized`: they clear the buffer but not its fill level), the
frame that is encoded, fails in a module, or does not fit the output, and what is left behind it. `Reinitialize`
is the call without buffers. `SetGranuleLength`, `SetInputFormat`, `SetOther` and `SetControlState` are
the kinds of parameters told apart by what they invalidate. Samples are numbered; `frame` is what the
core got. `mixed` is the history of a shorter frame length set while more samples wait than it takes.

### Proof modules

`BitStreamProofs`, `BitStreamWriterProofs`, `ConcealmentProofs`, `TransportDecProofs`,
`DecoderFramesProofs`, `ConfigChangeProofs`, `EncoderProofs`, `LimiterProofs`: see [proofs](#proofs).
The `MC` modules hold the instances: streams, scenarios, the fade table, patched fields, symmetry.

## Runs

All but `Limiter`, which can always be reset, have `CHECK_DEADLOCK FALSE`: an input ends, a call that
never returns is not an end but a violated liveness property, and bounded histories fill up.

| run | specification and bounds | shows |
| --- | --- | --- |
| `BitStream` | ring of 4 bytes of 2 bits, cache of 4 bits, 5 bytes of input in chunks, skips of 3, over-reads of 2, `UINT` of 6 bits | nothing unread or un-readable is overwritten; the cache holds the next bits; the cursors agree; the reader implements `BitFifo`; alignment goes to the anchor |
| `BitStreamWriter` | ring of 2 bytes of 3 bits, cache of 4 bits, 6 bits written, all fields patched; 710561 states | what was written is stored and fetched, in order, whatever was taken back, aligned or patched |
| `Concealment` | the decoder's table and slopes (6 out, 5 in), groups of 1 and 3 short blocks of 8, three methods, noise substitution and interpolation switched at any frame; 181586 states | indices stay in the tables; levels fall to silence and come back, slopes never turn, output never goes back; of a method that is kept: windows repeated are windows of the stored frame, sequence and spectrum fit, interpolation delays one frame |
| `TransportDec` | nine streams of up to 52 bytes: CRCs, PCEs, frames of two and three blocks, block positions that pass their frame or decrease, truncated, refused and unsupported frames, headers inside payloads; any chunks; resets and interruptions anywhere; four of them also played to the end; 101156 states | positions stay aligned; the reader goes back only to the end of a frame whose blocks are not where its length says; access units do not depend on chunks; a loss is reported once; a complete frame is decoded; all access units of a stream that is played are decoded, in order |
| `DecoderFrames` | three methods and an unknown one, three codecs, two SBR settings (symmetric), bursts of 2 troubles, ages up to 2, no fade levels; 73639 states | all delays agree; data are rendered with their header and the core they came with; SBR comes back |
| `Encoder` | frame lengths 1, 2, 3 of which 2 and 3 are supported, delays of 1 and 5, 6 samples, 3 parameters or failures, no samples after a flush; 25262 states | samples in order, end reported when, and finally, all is through |
| `Limiter` | attack of 1 and 2 samples, 2 channels, levels 0 to 2, two thresholds, scalings 1 and 2, 2 changes between resets; 334160 states | indices stay in memory; the maximum and the delay are exact again soon after a change |
| `ConfigChange` | raw with two configurations, raw with one and three cleared histories, both with damaged and lost frames; LOAS with two configurations with pre-roll, undisturbed; LOAS with two without, damaged and lost | flushes complete in their call, calls return, units are decoded with their configuration, pre-rolls come first, intact frames give output |
| `ConcealOffsets`, `TransportLastBlock`, `ConfigCleared`, `ConfigMissed` | see the findings | a statement of the code that does not hold |

Why the bounds are enough. The ring of `BitStream` is filled, wraps, is over-read and is fed again
within them, and its cache is shorter than the ring, as in the code; every combination of cursor and
cache is reached, and the proofs cover all sizes. The fade runs are longer (`LongRun` 9) than both
slopes and the mute release; `Oldest` 3 is more than the two frames interpolation remembers. The
streams of `TransportDec` are a few bytes longer than a header, which is what the byte-wise search
tells apart, and end in every kind of frame. `DecoderFrames` has two slots and two headers as the
code does, and a burst of two troubles reaches every combination of slot, header and flag that a third
could change; two settings tell a header from the one before, and data older than two calls are never
rendered in step. In `Encoder` a delay of 5 is longer than a frame and one of 1 shorter, so a flush takes
one or several calls, with every remainder of the samples. The limiter's window is 2 or 3 samples, so a
maximum leaves it, is replaced, and is met by a change of the length in either direction. `ConfigChange`
bounds nothing but the number of cleared histories, and that only because each one decrements a
counter: all else is finite.

Each property has a mutant: an operator named as faulty, beside the one it replaces (a dropped sync
of the cache, a missing reset, a swapped order, an off-by-one), under which TLC finds the property
violated.

Fairness. `TransportDec` assumes weak fairness of `Fill` and of `DecodeFrame` for streams that are
played: `aac-dec.c` (lines 60-130) is a loop that fills and decodes until its input ends, so neither is
put off for ever. `Encoder` assumes weak fairness of `Encode(-1)` once the application has begun to
flush, as the loop of an application that encodes to the end does; it does not assume that the encodings succeed more than
the bound on troubles says. `ConfigChange` assumes weak fairness of `Iterate` alone: a call, once made, runs to its end. No
fairness is assumed of the input or of the application's other calls.

## Findings

Four runs check what the source says and the code does not do.

* `ConcealOffsets`: the `FDK_ASSERT` on `srcWin` (`conceal.cpp:1732`) fails if the application
  switches to interpolation and back during one fade-out: offsets of a frame no longer stored.
* `TransportLastBlock`: inside a frame of several raw data blocks the decoder waits for bits behind
  the end of the frame (`tpdec_lib.cpp:959`), so the last blocks of a stream are never decoded.
* `ConfigCleared`: over LOAS, `AACDEC_CLRHIST` frees the decoder and does not restore it
  (`aacdecoder_lib.cpp:1194`), and no later access unit does.
* `ConfigMissed`: over LOAS, if the immediate playout frame of a configuration change is lost, the
  repeated announcement hides the change (`tpdec_latm.cpp:291`): the new stream is decoded with the
  old decoder.

Other deviations were met while modelling. The models contain them unless it is said otherwise; no run
is given to them:

Concealment

* Interpolation replaces the window sequence of the stored frame on leaving mute, because "spectrum
  in concealment buffer can't be used at all" (`conceal.cpp:1098`), but that spectrum is rendered by
  the next call. `WindowsFitSpectrum` is therefore stated of noise substitution.
* With spectral muting the fade state is never updated (`conceal.cpp:1589`), but fading follows it:
  if that method is chosen during a loss, the level stays where it is. `Switchable` holds the other two.
* `CConcealment_InitChannelData` leaves `concealState_old`: the first good frame after
  `AACDEC_CLRHIST` may get comfort noise.
* A switch of the method during decoding loses the delayed frame, or renders one twice.

Transport decoder

* A frame of an unsupported layer is to be skipped ("try again one frame later",
  `tpdec_adts.cpp:267`), but the caller un-reads the skip too: a header inside it may be taken.
* The end of a frame that will be rejected is waited for first: what follows inside the buffer, another
  frame perhaps, is found only then. `NotEnoughIsTrue` excepts that (`AtRejectedFrame`).
* A call with `AACDEC_INTR` that loses sync decodes what follows as if a header had been found
  (`aacdecoder_lib.cpp:1291`), and ends it by the frame before, whose place is no longer corrected for what was
  filled since.
* Block positions are not compared with `frame_length`. Where a block passes the end of its frame, the
  reader goes on behind it and is pulled back when the last block ends (`tpdec_lib.cpp:787`), so bits are part of two
  access units. The comment in `aacDecoder_UpdateBitStreamCounters` (`aacdecoder_lib.cpp:1111-1116`) knows
  this: the transport decoder "might want to rewind to the supposed ending of the transport frame, and this position
  might be before the last access unit beginning". `NeverMovesBack` excepts just that, and demands that it is the frame's
  true end, which the history `frame` tells and not `globalFramePos`. The rewind depends on the chunks, though: if nothing is buffered behind the end of such a block, the next call
  forgets the frame (`tpdec_lib.cpp:1470`), goes on from there, and what lies in between is lost. `ChunkIndependent`
  excepts that case.
* Positions that decrease wrap: a block may be up to 64 KB long, and end behind all that is buffered. If the buffer is
  filled before a rewind, bits that were overwritten are read again (`Overrun`).
* A damaged block may take the reader past the end of what is buffered; a reset then moves it back to
  the end. `NeverMovesBack` excepts that. Where the length of the block is known, in a frame of one block without CRC,
  the decoder means to put the reader at its end (`aacdecoder.cpp:3065`), but there
  `transportDec_GetAuBitsRemaining` counts the bits to the end of the buffer: it goes to that end, and
  frames in between are lost.

SBR

* A forced reset is cancelled without having been done if the call with `AACDEC_CLRHIST` is also a flush
  or its frame is lost: `sbrDecoder_Apply` clears the flag (`sbrdecoder.cpp:1925`), only
  `sbrDecoder_InitElement` acts on it.
* A frame without SBR payload does not advance the slots. With a delay the data behind it are a frame
  off their core, until the next flush or reset: `InStep` is stated of calls that have a payload.
* After a switch from noise substitution to interpolation, the header of the last frame is looked for in
  the slot of a delayed frame, which was not used meanwhile: a frame without a header goes on with the
  header that was in use before noise substitution, or with none.
* An interruption "switches off bitstream parsing until a new header arrives" (`sbrdecoder.cpp:962`), but
  marks one of the two headers only. With a delay, if the next frame brings a header that is not valid,
  its slot takes the other one, which is still in sync, and the frames behind it are decoded without a
  new header.

Configuration change

* `buildUpCnt` is decremented at each start without a flush and set only by a configuration change:
  after 128 calls with `AACDEC_CLRHIST` the signed char wraps and the next build up does not end with
  its frame.
* What `ConfigCleared` shows over LOAS happens on raw access units, too, if the configuration has changed in
  the band before `AACDEC_CLRHIST`: frames are without output until the next immediate playout frame. The raw streams
  of the runs clear histories only where there is one configuration.
* Over LOAS, if no access unit of the first configuration gave output before the next is announced,
  the decoder drops its flush as a parse error while the transport decoder's stays on
  (`aacdecoder.cpp:814`): the configuration is applied only by the next immediate playout frame.
  `ConfigChange` therefore takes LOAS streams with pre-roll undisturbed.
* Over LOAS, a configuration that the LATM parser applies at once, because `AACDEC_FLUSH` has dropped the
  one found and an access unit came without a stream mux configuration, is played without its pre-roll: whether the
  pre-roll is decoded hangs on `numChannels`, which still tells of the old decoder (`aacdecoder.cpp:737`, `810`).
  This, too, is why flushes are left out of the LOAS stream with pre-roll.

Encoder

* `nZerosAppended` is reset only by `aacEncInit` (`aacenc_lib.cpp:1261`). An application that flushes
  and then goes on with samples, without `AACENC_CONTROL_STATE` in between, is told the end at once
  by its next flush, though the documentation of `aacEncEncode` (`aacenc_lib.h:1591-1595`, `1627`) ties the end to
  the concluded flush. With `Resumes = TRUE` TLC finds `EofMeansFlushed` violated.
* A shorter frame length that is set with more samples waiting than it takes leaves the rest in the
  buffer behind the place where it is read from: samples come late or twice. `EncodesInOrder` is stated until that happens
  (`mixed`).
* A frame that fails in a module is encoded as silence by the next call: the initialization clears the
  buffer, and the fill level stays.
* `numInSamples = 0` encodes a frame if the buffer is full (after a frame that failed, or one that did not fit).
* `AACENC_CONTROL_STATE` overwrites what other parameters have asked to be initialized; with
  `AACENC_INIT_NONE` it cancels the initialization after a failed frame, too (this value is left out).

Limiter

* A maximum that a shorter attack leaves outside the window is kept, and the gain with it, until a
  sample as loud comes or the limiter is reset: the search runs only when a sample as loud leaves the
  window. `MaximumIsRunning` excepts it (`lost`).
* A reset clears what the present attack and channels use; after a longer attack or more channels are
  set, samples from before the reset come out. `DelayIsExact` and `MaximumIsRunning` are therefore stated
  once the lines have been filled after a change (`steady`).

## Proofs

| theorem | for every | says |
| --- | --- | --- |
| `BitStreamProofs!TypeCorrect`, `NoBitOverwritten`, `CacheHoldsNextBits`, `CursorsStayTogether` | size of byte, ring, cache, chunk and skip | the safety invariants of run `BitStream` |
| `BitStreamProofs!AlignsForEverySize` | the same | `AlignsToAnchor` |
| `BitStreamProofs!ReaderIsFifo` | the same | `BitStream` implements `BitFifo` |
| `BitStreamWriterProofs!WrittenIsStored` | size of byte, ring and cache, patched fields, number of bits | `StoredInOrder` |
| `ConcealmentProofs!TypeCorrect` | slopes, mute release, table, grouping, methods | the type invariant, switching or not |
| `ConcealmentProofs!FadeOutStaysInGroup`, `WindowsFit` | the same | `OffsetsStayInGroup`, `WindowsFitSpectrum` |
| `ConcealmentProofs!LossesFadeOut` | the same | `FallsSilent` |
| `ConcealmentProofs!GoodFramesRecover`, `OutputGoesOn` | the same, where spectral muting is not switched on or off (`MuteStays`) | `Recovers`, `NeverReplays` |
| `ConcealmentProofs!SlopesDoNotTurn` | tables that fall (`SlopesFall`) | `SlopesKeepDirection` |
| `ConcealmentProofs!InterpolationDelays` | slopes, table, grouping, without a mute release (`ReleasesAtOnce`) | `DelaysOneFrame` |
| `TransportDecProofs!TransportTypeCorrect`, `SearchIsAligned`, `ReaderGoesForward`, `LossIsReportedOnce` | streams, with any block positions in their protected headers, buffer, chunks, places where damaged blocks end | `TypeOK`, `SearchesAligned`, `NeverMovesBack`, `ReportsLossOnce` |
| `TransportDecProofs!WaitsOnlyForMissing`, `ChunksDoNotMatter` | the same | `NotEnoughIsTrue`, `ChunkIndependent` |
| `DecoderFramesProofs!FramesTypeCorrect`, `DelaysStayTogether`, `HeadersFit` | settings, methods, codecs, troubles, and whatever the concealment of the core does | `FramesTypeOK`, `DelaysAgree`, `HeaderFitsData` |
| `DecoderFramesProofs!SbrStaysInStep`, `HeadersBringSbrBack` | the same, and slopes, table and grouping of the concealment | `InStep`, `SbrRecovers` |
| `ConfigChangeProofs!ConfigTypeCorrect`, `RightDecoder`, `FlushEndsWithItsCall` | raw streams, all of whose configurations have a pre-roll, with up to 126 cleared histories | `TypeOK`, `DecodesWithItsConfig`, `FlushCompletes` |
| `ConfigChangeProofs!PreRollComesFirst` | the same | `PreRollsFirst` |
| `ConfigChangeProofs!IntactFramesPlay` | the same, with histories cleared only where the configuration does not change (`ClearsKeepDecoder`) | `PlaysIntact` |
| `EncoderProofs!EncoderTypeCorrect`, `EofIsTrue`, `CoreGetsSamplesInOrder` | frame lengths, delays, samples, troubles, of an application that does not go on after a flush | `TypeOK`, `EofMeansFlushed`, `EncodesInOrder` |
| `LimiterProofs!LimiterTypeCorrect`, `MaximumIsTrue`, `DelayIsTrue` | attacks, channels, levels, scalings, changes | `TypeOK`, `MaximumIsRunning`, `DelayIsExact` |

Assumptions are the named `ASSUME`s of the modules (`BufferAssumption`, `StreamAssumption`,
`WriterAssumption`, `ConcealAssumption`, `TransportAssumption`, `SettingsAssumption`, `FramesAssumption`,
`ConfigAssumption`, `EncoderAssumption`, `LimiterAssumption`): sizes are positive, the cache is no longer than the ring, slopes are shorter than
the table, frames fit in the buffer, and so on. TLC evaluates them on every run. Some theorems assume more, in
their statements:

* `RawStreams` of the configuration change (LOAS stays with TLC), and for `PlaysIntact` also `ClearsKeepDecoder`: where
  it does not hold, the decoder that `AACDEC_CLRHIST` frees is not built again before the next pre-roll, as run
  `ConfigCleared` shows over LOAS, and TLC finds `PlaysIntact` violated.
* `~Resumes` of the encoder: its application does not go on with samples after a flush.
* `SlopesFall`: the fade factors never rise, and differ in more than their last bit as far as a fade-in reaches. The
  decoder starts with the powers of 1/sqrt(2) (`conceal.cpp:280`), which do so; `findEquiFadeFrame` compares
  halves, and on a table that is flat there it may continue on the wrong side.
* `MuteStays`: spectral muting, which never updates the fade state (see [findings](#findings)), is
  neither chosen nor left during decoding.
* `ReleasesAtOnce`: `CONCEAL_DFLT_MUTE_RELEASE_FRAMES` is 0 (`conceal.cpp:163`); and the model tells at least two ages
  apart from older ones. With a release of more frames a good frame behind a long loss is muted instead.

`MCConcealment` assumes the last three of its instances, so TLC evaluates them as well.

*The reader.* `RewindableBitsKept` is not inductive: a feed overwrites what is behind `mark`, and
whether that is harmless depends on how the four cursors relate. The invariant is
`IInv == TypeOK /\ CursorsAgree /\ KeptInRing /\ MarkInReach /\ CacheCoherent /\ LastBitCached`:
the bits kept are stated from the write offset, which only a feed moves (`KeptInRing`); the mark is
within a ring of the end of what was fed (`MarkInReach`); and the last bit of the cache may be un-read
by `FDKpushBackCache` (`LastBitCached`). `RewindableBitsKept` follows, since `CursorsAgree` makes both
places the same (`KeptIsRewindable`). There is one lemma per action; pushes, alignment and reset share
`MoveKeepsInv`. The refinement follows from what those lemmas say of `Fed`, `ReadPos` and `out`. `AlignsToAnchor` needs
that an anchor, and where it was taken, put together are a byte of the input (`AnchorOnByte`), which a feed keeps because it
adds whole bytes.

*The writer.* `WriterInv` is `StoredInOrder` with the counts it does not mention: `BitNdx` is where `WriteOffset` and
`ValidBits` say (`Sound`), the cache word holds at least the bits counted in it and less than a word of them (`CacheTyped`), and
what is stored and cached fits in the ring (`RoomLeft`). `FDK_put`, `FDK_pushBack`, `FDK_Fetch` and the store of a second
writer are shown, one lemma each, to append to the stored bits, take off their end or front, or replace some of them; from
there on the actions are equations between sequences.

*The concealment.* The type invariant needs that the fade counter cannot leave its table: `Bounded`
relates it to the fade state. The other two theorems need to know, for a method that was not switched,
which offsets are zero in which state, and that the stored frame cannot change while they are not: `NoiseInv`.

The theorems about levels count frames. `FadeInv` relates `run`, how many frames in a row were lost or good, to
the state the channel can still be in: during a loss to the place on the slope or in the table (`Fading`), behind it to the valid
frames that were counted and the place in the fade-in (`Returning`); interpolation is a frame late (`Delay`).
`FallsSilent` and `Recovers` follow when the count is larger than every state but the last one allows. That
slopes do not turn needs the level `findEquiFadeFrame` continues at, which is found by induction over the indices of the table.
`NeverReplays` adds which frame is in the buffer, and that it is no older than the one rendered last (`Buffered`);
`DelaysOneFrame` adds which frames the buffer and the output hold after one and two good frames (`Behind`).

*The transport decoder.* `IInv == TypeOK /\ Positions /\ FrameFound /\ InFrame /\ BehindFrame`: the reader and what
was fed are at bytes (`Positions`); the place of the frame that `globalFramePos` tells is, inside the frame, the true one,
which the history `frame` holds, and behind it never before that (`FrameFound`); inside a protected frame whose blocks are well placed the reader is
exactly where the header says that its last block ended (`InFrame`); and in sync a protected frame begins at
a byte of the stream, and if its blocks are well placed the reader is not behind its end (`BehindFrame`), so
ending that frame cannot move it back. With other positions, block distances are still whole bytes and not
negative, so only the last block's end, which goes to the end of the frame, can (`PulledBack`). A
search goes to the least of the sync words it does not reject, which exists because positions are well
founded (`LeastPosition`).

`NotEnoughIsTrue` and `ChunkIndependent` compare a search that ends with what is in the buffer with one that has the whole
stream. A search stops at the first sync word it does not reject (`StopsAtFirst`), and whether a complete
header is rejected does not depend on the end; so if both stop at a frame, it is the same one. After a call that asked for more
the reader is at a frame that is not complete or too near the end for one (`Waiting`).

*The frames with SBR.* `FramesIInv` is the three properties, `SoundSbr(sbr)`, and that a USAC stream does not
interpolate. `SoundSbr` says that a header in sync has settings of a real header (`HeadersValid`), and that
the data of a slot without error flag were parsed with the header the slot uses, if that is in sync
(`DataFit`). Every operation of `SbrSlots` keeps it, in a lemma of its own; the core of it is
`HeaderSlotIsOwn`, that parsing never writes a header another slot waits with. That `setConcealMethod` can revert to the
wrong delay for USAC, where it gives up before it has noted what to go back to, is harmless only
because `aacDecoder_ConfigCallback` has already taken interpolation from such a stream.

`InStep` and `SbrRecovers` compose the two components: the data wait in a slot of `SbrSlots`, their frame in the
buffer of `Concealment`, and neither knows of the other. `CallsInv` therefore holds the invariant of `ConcealmentProofs`, whose
lemmas say what a frame does to the buffer, and adds what one call hands on to the next: with interpolation, data that can
be decoded in the other slot belong to the frame in the buffer, and without it no frame waits (`Paired`); after a header the
next frame is decoded (`Headed`); between calls no flush is going on, and a forced reset, which a flush or a lost
frame may cancel, has ended the counts (`AtRest`). Without `AtRest` the step after `AACDEC_CLRHIST` does not go through.

*The configuration change.* For raw streams both libraries' flush statuses are shown to move together
(`Coupled`), the pass counter of the loop to have one of the values the flush allows (`CountedDown`), and what
is between calls to be at rest (`Flushing`); `Announced` says which configuration the transport decoder
holds, so that a decoder is never left behind by a change that was announced. `PreRollsFirst` needs that a decoder which
has rendered nothing has nothing to repeat (`Fresh`), and that from the second unit of a call on something has been rendered
(`PreRollPlayed`); `PlaysIntact` that there is a decoder whenever a configuration is known (`Kept`).

*The encoder.* `IInv` adds to the properties that the buffer holds the samples due, in order, or zeros where a
failed frame was cleared (`InOrder`), and that zeros were appended during a flush only and are counted
until they are encoded (`Sound`). Both are stated of the record a call works on, so that each part of a
call has its lemma; the clauses with `mixed` say when the fill level is within a frame.

*The limiter.* Between a change and the state in which all is exact, the invariant speaks sample by
sample: the i-th last sample is where it belongs in the window (`Stored`) and in the delay line
(`Queued`) as soon as that many samples came in since the change, and the maximum is at least every
sample that is stored (`Found`, unless `lost`). One sample more is needed than the window holds, because an index left
behind its end by a shorter attack writes one sample where it is never read.

What stays with TLC: liveness (`AllTaken`, `CallsReturn`, `FlushEnds`) and everything about LOAS. Liveness under fairness, `ENABLED`, and statements about recursive functions over all data are
outside what the provers here can do; the fade table of `MCConcealment` and its loop are recursive
functions and are only evaluated.

## Not modelled

* Signal processing and entropy decoding: filter banks, SBR and MPEG Surround synthesis, DRC gains,
  quantisation, psychoacoustics, and the tables they use, which are most of the source. They are numeric, and their state does not interact.
* DRC decoders, the downmix and its ring of metadata; MPEG Surround: of their control only the delay that
  `setConcealMethod` sets is modelled.
* SBR: several elements, parametric stereo, changes of the sampling rate or the core's frame length. The count of
  flushed frames stays at 2, where the code's byte goes on to 255 and wraps: no flush of 256 calls is modelled.
* ACELP and TCX frames in the concealment; several channels that share `frameOK`; frames of USAC and
  low delay streams in `DecoderFrames`, where they are only configured.
* ADIF and DRM transport; LOAS framing and sub frames; configurations that are damaged and still
  parse; callbacks and allocations that fail; cross-fade samples.
* `ConfigChange` does not carry the `frameOK` that the end of a pass clears (`aacdecoder_lib.cpp:1454-1459`) to the
  next pass; with the mute release of 0 that is built in, it cannot be met there.
* Encoder: SBR and MPEG Surround, which move the place new samples are stored at; the metadata
  encoder's delay; rate control and the bit reservoir; framing.
* The Rust decoder, the xHE-AAC encoder and the programs, but for the loop of `aac-dec.c`.
* `FDK_Copy` and the backward functions of the bit stream have no caller in `cpp/`.
* `FDK_put` does not test for a full ring: callers size it, and the writer's model keeps to that.

## Plan

Done, in this order: the reader (everything else reads through it), its refinement of a FIFO, the
writer; the concealment; the transport decoder on ADTS; the configuration change, which composes the
control of two libraries; the SBR slots and their composition with the concealment; the encoder
library; the limiter; and the proofs of all of these.

Next, by importance:

1. An abstract specification of the configuration change (announce, flush, rebuild, play) that
   `ConfigChange` implements for raw streams; LOAS framing and sub frames below it, with `TransportDec`.
2. Two channels of `Concealment` with a shared `frameOK`.
3. The bit reservoir and the padding of the encoder core; the transport encoder's header, access units
   and sub frames above `BitStreamWriter`; the place of new samples with SBR in `Encoder`.
4. The ring of downmix metadata and the frame delay of DRC data beside the delays of `DecoderFrames`; several
   SBR elements.
