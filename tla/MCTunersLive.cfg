SPECIFICATION FairSpec
CONSTANTS
  c1 = c1
  c2 = c2
  p1 = p1
  p2 = p2
  NTuners = 1
  TunerType <- OneTerrestrial
  Client = {cl1, cl2}
  Channel = {c1}
  ChannelType <- Terrestrial
  Number <- TerrestrialNumber
  Program = {p1}
  PmtPid <- PmtPids
  StreamPid <- StreamPids
  Fd = {3, 4, 5, 6, 7, 8, 9, 10, 11, 12}
  OpenMayFail = TRUE
  NestedTuning = FALSE

  
PROPERTIES
  TryingEnds
CHECK_DEADLOCK FALSE
