--------------------------- MODULE MCConcealment ---------------------------
(***************************************************************************)
(* Concealment with the decoder's own fade table: FIXP_SGL powers of       *)
(* CONCEAL_DFLT_FADE_FACTOR = 1/sqrt(2), as CConcealment_InitCommonData    *)
(* computes them.                                                          *)
(***************************************************************************)
EXTENDS Concealment

MCFull == 32768

\* FL2FXCONST_SGL(1/sqrt(2)), and the truncating FX_DBL2FX_SGL(fMult(a, b)).
OneOverSqrt2 == 23170
MCFadeFactor ==
  LET f[n \in FactorIndex] ==
        IF n = 0 THEN OneOverSqrt2 ELSE (f[n - 1] * OneOverSqrt2) \div 32768
  IN  f

\* The loop over the windows of a frame in CConcealment_ApplyFadeOut, step by
\* step: what FadeSteps and NextOffset say of it in one division.
FadeOutLoop(i, m) ==
  LET step[w \in 0..NumWindows(i)] ==
        IF w = 0 THEN [src |-> i.offset[m].winGrp, grp |-> i.offset[m].attGrp, att |-> 0]
        ELSE LET s == step[w - 1]
             IN  IF s.src + 1 < GroupLen(i) THEN [s EXCEPT !.src = @ + 1]
                 ELSE IF s.grp + 1 < AttIdxStride(i) THEN [s EXCEPT !.src = 0, !.grp = @ + 1]
                 ELSE [src |-> 0, grp |-> 0, att |-> s.att + 1]
  IN  step[NumWindows(i)]

\* For every group, and every offset an earlier frame can have left.
ASSUME LoopAssumption ==
  \A sequence \in {"Long", "Short"}, len \in 1..NumShort, w \in 0..(NumShort - 1) :
    LET fresh == [InitChannelData("Ok") EXCEPT !.windowSequence = sequence,
                                              !.lastWinGrpLen = len]
    IN  \A a \in 0..(AttIdxStride(fresh) - 1) :
          LET i == [fresh EXCEPT !.offset[0] = [winGrp |-> w, attGrp |-> a]]
              loop == FadeOutLoop(i, 0)
          IN  /\ loop.att = FadeSteps(i, 0)
              /\ [winGrp |-> loop.src, attGrp |-> loop.grp] = NextOffset(i, 0)

\* What the theorems ask of the constants holds of the runs'.
ASSUME TheoremAssumption == SlopesFall /\ MuteStays /\ ReleasesAtOnce

=============================================================================
