SPECIFICATION Spec
CONSTANTS
  FStart = 474
  FEnd = 474
  FStep = 8
  FreqMod = 4294
  NTuners = 2
  TunerType <- MCTypesT
  Caps <- MCCapsT
  AirPat <- MCPat
  AirSdt <- MCSdt
  MaxSearches = 2
  Wish = {"CANCELLED"}
  ClientKinds = {"ready", "search"}
  MaxListeners = 1
  OtherTuners = TRUE
INVARIANTS
  NoStaleListener
  ListenersRestored
  ReadyHasTables
  TunersGivenBack
PROPERTIES
  ImplementsService
CHECK_DEADLOCK FALSE
