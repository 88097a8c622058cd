---------------------------- MODULE MCTransportDec ----------------------------
(***************************************************************************)
(* Small streams for TransportDec.                                         *)
(***************************************************************************)
EXTENDS TransportDec, TLC

Frame(ends) == [ends |-> ends, protected |-> FALSE, pce |-> 0, kind |-> "Valid"]
Protected(ends) == [Frame(ends) EXCEPT !.protected = TRUE]

\* Three bytes of something else, a frame, one with a CRC, one with a PCE.
Singles ==
  [played |-> FALSE, bytes |-> 34,
   header |-> 3 :> Frame(<<9>>) @@ 12 :> Protected(<<11>>)
              @@ 23 :> [Frame(<<11>>) EXCEPT !.pce = 16],
   units |-> <<80, 168, 256>>]

\* Frames of two raw data blocks, with CRCs and a PCE and without, and a last one.
Blocks ==
  [played |-> FALSE, bytes |-> 41,
   header |-> 0 :> [Protected(<<16, 20>>) EXCEPT !.pce = 8] @@ 20 :> Frame(<<9, 12>>)
              @@ 32 :> Frame(<<9>>),
   units |-> <<96, 128, 216, 232, 312>>]

\* Five bytes of the first frame are missing, the second frame holds what looks
\* like a header at byte 14, and a header at byte 26 is refused.
Damaged ==
  [played |-> FALSE, bytes |-> 45,
   header |-> 0 :> Frame(<<12>>) @@ 7 :> Frame(<<10>>) @@ 14 :> Frame(<<10>>)
              @@ 17 :> Frame(<<9>>) @@ 26 :> [Frame(<<10>>) EXCEPT !.kind = "Refused"]
              @@ 36 :> Frame(<<9>>),
   units |-> <<56, 168, 344>>]

\* A frame of an unsupported layer, then a good one.
Unsupported ==
  [played |-> FALSE, bytes |-> 25,
   header |-> 0 :> [Frame(<<16>>) EXCEPT !.kind = "Unsupported"] @@ 16 :> Frame(<<9>>),
   units |-> <<184>>]

\* The same, with what looks like a good frame in the payload of the first.
Hidden == [Unsupported EXCEPT !.header = @ @@ 8 :> Frame(<<8>>)]

\* And with a first frame that is refused, once it is complete, and ends later.
HiddenRefused ==
  [Unsupported EXCEPT !.header = 7 :> Frame(<<8>>) @@ [@ EXCEPT ![0].kind = "Refused"]]

\* A last frame of two blocks.
LastBlocks ==
  [played |-> FALSE, bytes |-> 21, header |-> 0 :> Frame(<<9>>) @@ 9 :> Frame(<<9, 12>>), units |-> <<56, 128, 144>>]

\* A first block that, by its position, ends behind the frame and the next.
Misplaced ==
  [LastBlocks EXCEPT !.bytes = 52,
     !.header = 0 :> Protected(<<22, 16>>) @@ 16 :> Frame(<<9>>) @@ 25 :> Frame(<<10>>)]

\* A frame whose PCE passes its first block, one shorter than its header, and one
\* whose second position is before the first: the distance wraps.
Wrapped ==
  [LastBlocks EXCEPT !.bytes = 51,
     !.header = 0 :> [Protected(<<12, 15>>) EXCEPT !.pce = 16] @@ 15 :> Protected(<<5>>)
                @@ 20 :> Protected(<<15, 14, 16>>) @@ 36 :> Frame(<<9>>)]

MCMisread == {-11, 12}

PlayedStreams == {[s EXCEPT !.played = TRUE] : s \in {Singles, Blocks, Damaged, Unsupported}}
AllStreams == {Singles, Blocks, Damaged, Unsupported, Hidden, HiddenRefused, LastBlocks,
               Misplaced, Wrapped} \cup PlayedStreams
MixedStreams == {Blocks, LastBlocks}
=============================================================================
