SPECIFICATION Spec
CONSTANTS
  x1 = x1
  p1 = p1
  p2 = p2
  NTuners = 1
  Transponder = {x1}
  Channel = {22}
  ChannelOf <- Terrestrial
  Program = {p1, p2}
  Place = {1, 2}
  NPat = 1
  PatSectionOf <- OneSection
  NEit = 0
  MaxChanges = 1
  MayRestart = TRUE
  MayLose = FALSE
SYMMETRY ProgramSymmetry
INVARIANTS
  ReadyHeard
  ProgramHeard
  
