-------------------------- MODULE MCDecoderFrames --------------------------
EXTENDS MCConcealment, DecoderFrames, TLC

SettingsSymmetry == Permutations(Settings)
=============================================================================
