SPECIFICATION FramesSpec
CONSTANTS
  Methods = {"Mute", "Noise", "Inter"}
  Switchable = {}
  NumFadeOut = 0
  NumFadeIn = 0
  NumMuteRelease = 0
  NumFactors = 3
  FadeFactor <- MCFadeFactor
  NumShort = 1
  LastGroups = {1}
  Full <- MCFull
  Oldest = 2
  LongRun = 1
  Settings = {A, B}
  OldestData = 2
  ConcealMethodUser = {"Noise", "Inter", "Unknown"}
  Codecs = {"AAC", "LowDelay", "USAC"}
  MaxTroubles = 2
INVARIANTS FramesTypeOK DelaysAgree HeaderFitsData InStep SbrRecovers
CHECK_DEADLOCK FALSE

SYMMETRY SettingsSymmetry
