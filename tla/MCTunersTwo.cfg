SPECIFICATION Spec
CONSTANTS
  c1 = c1
  c2 = c2
  p1 = p1
  p2 = p2
  NTuners = 2
  TunerType <- TwoTerrestrial
  Client = {cl1, cl2, cl3}
  Channel = {c1, c2}
  ChannelType <- Terrestrial
  Number <- TerrestrialNumber
  Program = {}
  PmtPid <- PmtPids
  StreamPid <- StreamPids
  Fd = {3, 4, 5, 6, 7, 8, 9, 10, 11, 12, 13, 14}
  OpenMayFail = FALSE
  NestedTuning = FALSE
INVARIANTS
  NothingLeaks
  PollMatchesTuners
  LockedOnChannelAskedFor
  DecoderOnlyWhenLocked

  
SYMMETRY Symmetry
CHECK_DEADLOCK FALSE
