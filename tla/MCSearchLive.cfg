SPECIFICATION FairSpec
CONSTANTS
  FStart = 474
  FEnd = 482
  FStep = 8
  FreqMod = 4294
  NTuners = 1
  TunerType <- MCTypesT
  Caps <- MCCapsMany
  AirPat <- MCPat
  AirSdt <- MCSdt
  MaxSearches = 1
  Wish = {"CANCELLED", "STOPPED"}
  ClientKinds = {}
  MaxListeners = 0
  OtherTuners = FALSE
INVARIANTS
  CompletedIsThorough
  FoundIsRight
PROPERTIES
  SearchEnds
CHECK_DEADLOCK FALSE
