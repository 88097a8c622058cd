----------------------------- MODULE MCEncoder -----------------------------
EXTENDS Encoder, TLC

\* Shorter than a frame, as DELAY_AACELD, and longer, as DELAY_AAC.
MCDelay == 2 :> 1 @@ 3 :> 5
=============================================================================
