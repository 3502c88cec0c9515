SPECIFICATION FairSpec
CONSTANTS
  x1 = x1
  p1 = p1
  p2 = p2
  NTuners = 2
  Transponder = {x1}
  Channel = {22}
  ChannelOf <- Terrestrial
  Program = {p1}
  Place = {1}
  NPat = 1
  PatSectionOf <- OneSection
  NEit = 0
  MaxChanges = 1
  MayRestart = FALSE
  MayLose = FALSE
INVARIANTS
  ReadyOnce
PROPERTIES
  FollowsAir
