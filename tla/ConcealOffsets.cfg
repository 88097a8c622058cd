SPECIFICATION Spec
CONSTANTS
  Methods = {"Noise", "Inter"}
  Switchable = {"Noise", "Inter"}
  NumFadeOut = 6
  NumFadeIn = 5
  NumMuteRelease = 0
  NumFactors = 32
  FadeFactor <- MCFadeFactor
  NumShort = 8
  LastGroups = {1, 3, 8}
  Full <- MCFull
  Oldest = 3
  LongRun = 9
INVARIANTS OffsetsFitGroup
CHECK_DEADLOCK FALSE
