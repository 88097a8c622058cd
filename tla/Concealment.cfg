SPECIFICATION Spec
CONSTANTS
  Methods = {"Mute", "Noise", "Inter"}
  Switchable = {"Noise", "Inter"}
  NumFadeOut = 6
  NumFadeIn = 5
  NumMuteRelease = 0
  NumFactors = 32
  FadeFactor <- MCFadeFactor
  NumShort = 8
  LastGroups = {1, 3}
  Full <- MCFull
  Oldest = 3
  LongRun = 9
INVARIANTS TypeOK OffsetsStayInGroup WindowsFitSpectrum DelaysOneFrame Recovers FallsSilent
PROPERTIES NeverReplays SlopesKeepDirection
CHECK_DEADLOCK FALSE
